---- MODULE Spec2Model ----
(***************************************************************************)
(* A model of BrowserController (src/browser_controller.py): the tab list, *)
(* the current-tab pointer, the active page, the cached snapshot, the      *)
(* thread that owns the driver, and the operations on them; and of the     *)
(* jobs server.py runs against it.  Every driver call a handler wraps in   *)
(* try/except may throw; which one throws is an input of the action (its   *)
(* `fail` parameter, "none" when none throws or when the handler returns   *)
(* before it reaches the driver).                                          *)
(***************************************************************************)
EXTENDS Integers, Sequences, FiniteSets, TLC

(* ------------------------------- bounds -------------------------------- *)
\* pages the driver hands out over a run (start's page included)
MaxPages == 3
\* entries the navigation log may hold before the model stops appending
MaxHistory == 1
\* nesting of the "duplicate_" prefix in a tab purpose
MaxDup == 1
\* nodes of the accessibility tree, in pre-order
MaxNodes == 2
\* elements the DOM pass returns
MaxDom == 2
\* iterations of the agent loop (self.max_iterations, 45 in the source) and
\* tool calls in one response of the model
max_iterations == 3
MaxCalls == 2
\* navigations the context specification logs
MaxVisits == 6
\* creations of an agent under way at once in the race specification
MaxCreates == 2

(* ------------------------------ constants ------------------------------ *)
\* self.page = None
NoPage == 0
\* self._playwright_thread_id = None
NoThread == 0
\* the thread that calls start() (the worker), and another thread
Worker == 1
Other == 2
Threads == {Worker, Other}

\* url = None / purpose = None: both are tested with `if url:` / `if purpose:`
NoUrl == ""
Urls == {"a.com"}
NoPurpose == [dup |-> 0, base |-> ""]
Purposes == {[dup |-> 0, base |-> "work"]}
\* f"duplicate_{purpose}"
Duplicate(p) == [dup |-> p.dup + 1, base |-> p.base]
\* self.tab_purposes.get(i, 'unknown')
Unknown == [dup |-> 0, base |-> "unknown"]

VARIABLES
    playwright,            \* "None" | "running" | "stopped"
    context,               \* "None" | "ctx"
    playwright_thread_id,  \* the thread that ran start(), or NoThread
    pages,                 \* self.pages: sequence of page handles
    current_tab_index,     \* self.current_tab_index (0-based)
    page,                  \* self.page: the handle actions are dispatched to
    tab_purposes,          \* self.tab_purposes: dict index -> purpose
    navigation_history,    \* self.navigation_history
    snapshot_cache,        \* self.snapshot_cache: <<>>, or <<s>> with s under 'latest'
    axTree,                \* driver: the page's accessibility tree, in pre-order
    domForm,               \* driver: what the DOM form scan returns for the page
    control,               \* driver: the page's control: whether it is checked/on,
                           \* and the value typed into it
    created,               \* driver: number of page handles handed out
    closedPages,           \* driver: handles whose close() was called
    ret,                   \* the last call: its name, arguments and result
    pre,                   \* the controller's fields when the last call began
    streak,                \* the current run of consecutive next/previous_tab calls
    dateArg,               \* caller: the date string it passes to select_date
    agent,                 \* server.py: the global agent, "None" or "agent"
    profile_browser,       \* server.py: the global profile browser: NoThread for
                           \* None, else the thread its start() ran on
    current_task,          \* server.py: "None", or where the running task stands
    playwright_executor,   \* server.py: the jobs queued on the one-thread executor
    running,               \* the job each thread is running, or Idle
    reply,                 \* server.py: the last reply to /task, /start, /stop, /status
    tasks,                 \* server.py: run_agent_task coroutines that have not ended
    sessions,              \* browser sessions launched on the profile and not closed
    conversation_history,  \* agent.py: self.conversation_history
    recent_tools,          \* agent.py: recent_tools of run()
    iteration,             \* agent.py: calls of the model run() has made
    loop                   \* agent.py: run() is "idle", "running" or "returned"

controllerVars ==
    <<playwright, context, playwright_thread_id, pages, current_tab_index,
      page, tab_purposes, navigation_history, snapshot_cache, axTree,
      domForm, control, created, closedPages, ret, pre, streak, dateArg>>
requestVars == <<reply, tasks, sessions>>
loopVars == <<conversation_history, recent_tools, iteration, loop>>
globalVars == <<agent, profile_browser, current_task, requestVars, loopVars>>
serverVars == <<agent, profile_browser, current_task, playwright_executor, running,
                requestVars, loopVars>>
vars == <<controllerVars, serverVars>>

tabVars == <<pages, current_tab_index, page>>
lifeVars == <<playwright, context, playwright_thread_id>>
logVars == <<tab_purposes, navigation_history>>
snapVars == <<snapshot_cache, axTree, domForm, control>>
pageVars == <<axTree, domForm, control>>

(* ------------------------------- helpers ------------------------------- *)
\* self.pages[i], i 0-based, for an index the list has
At(s, i) == s[i + 1]

\* Python's list indexing: s[i] raises IndexError outside -len(s) .. len(s)-1,
\* and a negative i counts from the end
IndexError(s, i) == i >= Len(s) \/ i < 0 - Len(s)
PyAt(s, i) == IF i >= 0 THEN s[i + 1] ELSE s[Len(s) + i + 1]

\* list.pop(i), i 0-based
Pop(s, i) == SubSeq(s, 1, i) \o SubSeq(s, i + 2, Len(s))

\* dict assignment d[k] = v
DictSet(d, k, v) == [x \in DOMAIN d \cup {k} |-> IF x = k THEN v ELSE d[x]]

\* dict.get(k, default)
DictGet(d, k, default) == IF k \in DOMAIN d THEN d[k] ELSE default

\* Python's truth test of an optional url (`if url:`) and purpose (`if purpose:`)
HasUrl(u) == u # NoUrl
HasPurpose(p) == p # NoPurpose

\* the result of a call, with the keys every call of the model reports
Result(op, t, arg) ==
    [op |-> op, thread |-> t, arg |-> arg,
     input |-> <<>>,        \* the other arguments, and what the driver did
     raised |-> FALSE,      \* an exception reached the caller
     hasSuccess |-> TRUE,   \* the returned dict has a 'success' key
     success |-> FALSE,
     error |-> FALSE,       \* the returned dict has an 'error' key
     threw |-> "none",      \* the call whose exception the handler caught
     tabIndex |-> {},       \* 'tabIndex' of the result, when present
     skipped |-> FALSE,     \* 'skipped' of the result
     elements |-> <<>>,     \* 'elements' of the result
     checked |-> "absent",  \* 'checked' of a state read: absent, None, True, False
     value |-> "absent",    \* 'value' of a state read: absent, or the value
     hasAriaChecked |-> FALSE,  \* a state read has an 'aria_checked' key
     hasDisabled |-> FALSE, \* a state read has a 'disabled' key
     reported |-> FALSE,    \* a strategy of the call reported success
     reread |-> "none",     \* what the verification after it found
     date |-> <<>>,         \* 'date' of the result, when present
     recentDomains |-> {},  \* 'recentDomains' of the result
     tried |-> <<>>,        \* the strategies the call attempted, in order
     fetch |-> <<>>,        \* the tree queries the call made, with their waits
     gate |-> <<>>,         \* the driver calls of the readiness wait
     landed |-> {},         \* the strategies that reported success
     recommendation |-> "absent",  \* 'recommendation' of the result
     driverActions |-> 0,   \* click, fill, keyboard and script calls issued
     hasPreState |-> FALSE, \* the result has a 'pre_state' key
     hasPostState |-> FALSE,\* the result has a 'post_state' key
     verify |-> FALSE,      \* click's verify_action argument
     on |-> FALSE,          \* driver: the control was checked/on when the call began
     probed |-> FALSE,      \* driver: the state probe found the control and did not throw
     driverCalls |-> 0,     \* 1 when the call reached the driver, else 0
     driverClicks |-> 0,    \* locator.click / mouse.click calls issued
     cachedOn |-> NoPage]   \* history: the page the cached snapshot was taken on

Ok(r) == [r EXCEPT !.success = TRUE]
Failed(r) == [r EXCEPT !.success = FALSE, !.error = TRUE]
Caught(r, f) == [Failed(r) EXCEPT !.threw = f]
Raised(r) == [r EXCEPT !.raised = TRUE, !.hasSuccess = FALSE]
Drove(r) == [r EXCEPT !.driverCalls = 1]

\* the fields of the controller as a call finds them
Fields ==
    [pages |-> pages, current_tab_index |-> current_tab_index, page |-> page,
     playwright_thread_id |-> playwright_thread_id, closedPages |-> closedPages]

\* a reply of the server: the path and what it answers; /status also reports
\* browser_running and task_running
Reply(path, status) ==
    [path |-> path, status |-> status, browser_running |-> FALSE,
     task_running |-> FALSE]

\* a thread with no job, and a call made by the job a thread is running: the
\* job goes on from "calling" to "called", or to "raised" if the call raised
Idle == [op |-> "none", by |-> "none", phase |-> "idle"]
Served(r) ==
    IF r.thread \in Threads /\ running[r.thread].phase = "calling"
    THEN [running EXCEPT ![r.thread].phase =
              IF r.raised THEN "raised" ELSE "called"]
    ELSE running

\* every call records its result and the fields it found, lets the server job
\* that made it go on, and ends a run of next_tab / previous_tab calls unless
\* it is one of them; a run longer than any tab count is counted as MaxPages + 1.
\* The record also keeps the page that was active when the cached snapshot was
\* stored (the cache itself holds no such mark).
NoStreak == [op |-> "none", len |-> 0, page |-> NoPage, index |-> 0]
Untracked == [op |-> "off", len |-> 0, page |-> NoPage, index |-> 0]
Called(r) ==
    /\ ret' = [r EXCEPT !.cachedOn = IF r.op = "get_snapshot" /\ ~r.error
                                     THEN page ELSE ret.cachedOn]
    /\ running' = Served(r)
    /\ UNCHANGED <<globalVars, playwright_executor, dateArg>>
    /\ pre' = Fields
    /\ streak' =
         IF streak = Untracked THEN Untracked
         ELSE IF r.op \in {"next_tab", "previous_tab"}
         THEN IF streak.op = r.op
              THEN [streak EXCEPT !.len = IF @ > MaxPages THEN @ ELSE @ + 1]
              ELSE [op |-> r.op, len |-> 1, page |-> page,
                    index |-> current_tab_index]
         ELSE NoStreak

(* -------------------------------- start -------------------------------- *)
\* the controller as __init__ leaves it, in front of a page whose content is
\* one of the given trees and DOM scans, and a caller holding one of the given
\* date strings
Given(trees, doms, dates, run) ==
    /\ playwright = "None"
    /\ context = "None"
    /\ playwright_thread_id = NoThread
    /\ pages = <<>>
    /\ current_tab_index = 0
    /\ page = NoPage
    /\ tab_purposes = <<>>
    /\ navigation_history = <<>>
    /\ snapshot_cache = <<>>
    /\ axTree \in trees
    /\ domForm \in doms
    /\ control = [on |-> FALSE, value |-> ""]
    /\ created = 0
    /\ closedPages = {}
    /\ ret = Result("init", NoThread, {})
    /\ pre = [pages |-> <<>>, current_tab_index |-> 0, page |-> NoPage,
              playwright_thread_id |-> NoThread, closedPages |-> {}]
    /\ streak = run
    /\ dateArg \in dates
    /\ agent = "None"
    /\ profile_browser = NoThread
    /\ current_task = "None"
    /\ playwright_executor = <<>>
    /\ running = [t \in Threads |-> Idle]
    /\ reply = Reply("none", "none")
    /\ tasks = 0
    /\ sessions = 0
    /\ conversation_history = <<>>
    /\ recent_tools = <<>>
    /\ iteration = 0
    /\ loop = "idle"

\* the same, the caller holding no date
NoDate == [sep |-> "", parts |-> <<>>]
Constructed(trees, doms, run) == Given(trees, doms, {NoDate}, run)

\* an empty page
Init == Constructed({<<>>}, {<<>>}, Untracked)

\* the same, with runs of next_tab / previous_tab calls counted
InitCounting == Constructed({<<>>}, {<<>>}, NoStreak)

Started == playwright = "running"

\* start(): records the calling thread, launches the driver, takes one page
Start(t) ==
    /\ playwright = "None"
    /\ playwright_thread_id' = t
    /\ playwright' = "running"
    /\ context' = "ctx"
    /\ created' = created + 1
    /\ page' = created + 1
    /\ pages' = <<created + 1>>
    /\ current_tab_index' = 0
    /\ Called(Drove(Ok(Result("start", t, {}))))
    /\ UNCHANGED <<tab_purposes, navigation_history, snapVars, closedPages>>

\* _check_thread_safety(): TRUE when the call may proceed
ThreadOk(t) == ~(playwright_thread_id # NoThread /\ t # playwright_thread_id)

\* close()
Close(t) ==
    IF ~ThreadOk(t)
    THEN /\ Called(Raised(Result("close", t, {})))
         /\ UNCHANGED <<lifeVars, tabVars, logVars, snapVars, created,
                        closedPages>>
    ELSE /\ closedPages' = IF context = "ctx" THEN 1..created ELSE closedPages
         /\ playwright' = IF playwright = "None" THEN "None" ELSE "stopped"
         /\ pages' = <<>>
         /\ current_tab_index' = 0
         /\ context' = "None"
         /\ playwright_thread_id' = NoThread
         /\ Called([Result("close", t, {}) EXCEPT
                       !.hasSuccess = FALSE,
                       !.driverCalls = IF playwright = "None" THEN 0 ELSE 1])
         /\ UNCHANGED <<page, logVars, snapVars, created>>

(* ------------------------------ navigate ------------------------------- *)
\* one entry of self.navigation_history.  Only its 'url' is ever read back
\* (get_navigation_context, _get_tab_context_summary); 'timestamp', 'tab_index'
\* and 'purpose' are written and never read, and are not kept in the model.
NavEvent(url, index, purpose) == [url |-> url]

\* navigate(url, purpose); fail: "none" | "goto".  The model stops logging
\* at `limit` entries.
navigate(limit, t, url, purpose, fail) ==
    LET r == Result("navigate", t, {})
        thrown == page = NoPage \/ fail = "goto"
    IN  /\ Len(navigation_history) < limit
        /\ navigation_history' = Append(navigation_history,
               NavEvent(url, current_tab_index,
                        IF HasPurpose(purpose) THEN purpose
                        ELSE [dup |-> 0, base |-> "navigation"]))
        /\ tab_purposes' = IF HasPurpose(purpose)
                           THEN DictSet(tab_purposes, current_tab_index, purpose)
                           ELSE tab_purposes
        /\ page = NoPage => fail = "none"
        /\ Called([(IF thrown THEN Caught(r, "goto") ELSE Ok(r)) EXCEPT
                      !.driverCalls = IF page = NoPage THEN 0 ELSE 1])
        /\ UNCHANGED <<lifeVars, tabVars, snapVars, created, closedPages>>

Navigate(t, url, purpose, fail) == navigate(MaxHistory, t, url, purpose, fail)

(* ------------------------- navigation context -------------------------- *)
\* urlparse(url).netloc: the host of a url that has "//" after its scheme,
\* and '' for a url written without one ("a.com/x")
Netloc(url) == IF url.scheme = "" THEN "" ELSE url.host

\* the domains of the whole navigation history
RecentDomains_Whole ==
    {Netloc(navigation_history[k].url) : k \in DOMAIN navigation_history}

\* set(recent_domains) over self.navigation_history[-5:]
recent == 5
RecentDomains ==
    {Netloc(navigation_history[k].url) :
        k \in {j \in DOMAIN navigation_history :
                  j > Len(navigation_history) - recent}}

\* _get_tab_recommendation(current_domain, recent_domains)
TabRecommendation(recent_domains) ==
    IF Cardinality(recent_domains) > 2 THEN "Consider using new tabs"
    ELSE IF Len(pages) = 1 /\ Cardinality(recent_domains) > 1
    THEN "Opening a new tab might help"
    ELSE "Current tab organization seems appropriate"

\* get_navigation_context(): self.page.url raises when there is no page
GetNavigationContext(t) ==
    LET r == Result("get_navigation_context", t, {})
    IN  /\ Called(IF page = NoPage THEN Caught(r, "url")
                  ELSE [Ok(r) EXCEPT
                           !.recentDomains = RecentDomains,
                           !.recommendation = TabRecommendation(RecentDomains)])
        /\ UNCHANGED <<lifeVars, tabVars, logVars, snapVars, created, closedPages>>

(* ---------------------------- tab management --------------------------- *)
\* open_new_tab(url, purpose), also the tail of duplicate_tab.
\* fail: "none" | "new_page" | "goto" | "bring_to_front"
open_new_tab(r, url, purpose, fail) ==
    LET new_page == created + 1
        new_tab_index == Len(pages)          \* len(self.pages) - 1 after the append
        appended == Append(pages, new_page)
        labelled == IF HasPurpose(purpose)
                    THEN DictSet(tab_purposes, new_tab_index, purpose)
                    ELSE tab_purposes
        logged == Append(navigation_history,
                         NavEvent(url, new_tab_index,
                                  IF HasPurpose(purpose) THEN purpose
                                  ELSE [dup |-> 0, base |-> "new_tab"]))
    IN  IF context = "None" \/ fail = "new_page"
        THEN \* self.context.new_page() raised: nothing was touched
             /\ context = "None" => fail = "none"
             /\ Called([Caught(r, "new_page") EXCEPT
                           !.driverCalls = IF context = "None" THEN 0 ELSE 1])
             /\ UNCHANGED <<lifeVars, tabVars, logVars, snapVars, created,
                            closedPages>>
        ELSE /\ created < MaxPages
             /\ created' = new_page
             /\ pages' = appended
             /\ tab_purposes' = labelled
             /\ IF HasUrl(url) /\ fail = "goto"
                THEN \* new_page.goto / title raised: the page stays appended
                     /\ Called(Drove(Caught(r, "goto")))
                     /\ UNCHANGED <<navigation_history, page>>
                ELSE /\ IF HasUrl(url)
                        THEN /\ Len(navigation_history) < MaxHistory
                             /\ navigation_history' = logged
                        ELSE UNCHANGED navigation_history
                     /\ page' = new_page
                     /\ IF fail = "bring_to_front"
                        THEN Called(Drove(Caught(r, "bring_to_front")))
                        ELSE Called(Drove([Ok(r) EXCEPT !.tabIndex = {new_tab_index}]))
             /\ UNCHANGED <<lifeVars, current_tab_index, snapVars, closedPages>>

OpenNewTab(t, url, purpose, fail) ==
    /\ (fail = "goto") => HasUrl(url)
    /\ open_new_tab(Result("open_new_tab", t, {}), url, purpose, fail)

\* the bounds check with its upper bound off by one
InvalidIndex_OffByOne(tab_index) == tab_index < 0 \/ tab_index > Len(pages)

\* the bounds check shared by switch_to_tab, close_tab, reload_tab, duplicate_tab
InvalidIndex(tab_index) == tab_index < 0 \/ tab_index >= Len(pages)

\* switch_to_tab(tab_index), also the tail of next_tab / previous_tab.
\* fail: "none" | "bring_to_front"
switch_to_tab(r, tab_index, fail) ==
    IF InvalidIndex(tab_index)
    THEN /\ fail = "none"
         /\ Called(Failed(r))
         /\ UNCHANGED <<lifeVars, tabVars, logVars, snapVars, created,
                        closedPages>>
    ELSE /\ current_tab_index' = tab_index
         /\ IF IndexError(pages, tab_index)
            THEN \* self.pages[tab_index] raised, after the index was stored
                 /\ fail = "none"
                 /\ Called(Caught(r, "index"))
                 /\ UNCHANGED page
            ELSE /\ page' = PyAt(pages, tab_index)
                 /\ Called(Drove(IF fail = "bring_to_front"
                                 THEN Caught(r, "bring_to_front")
                                 ELSE [Ok(r) EXCEPT !.tabIndex = {tab_index}]))
         /\ UNCHANGED <<lifeVars, pages, logVars, snapVars, created,
                        closedPages>>

SwitchToTab(t, tab_index, fail) ==
    switch_to_tab(Result("switch_to_tab", t, {tab_index}), tab_index, fail)

\* the index arithmetic of next_tab / previous_tab; len(self.pages) = 0 divides by zero
NextIndex == (current_tab_index + 1) % Len(pages)
PrevIndex == (current_tab_index - 1) % Len(pages)

\* a call that raises ZeroDivisionError to its caller and touches nothing
DivideByZero(r, fail) ==
    /\ fail = "none"
    /\ Called(Raised(r))
    /\ UNCHANGED <<lifeVars, tabVars, logVars, snapVars, created, closedPages>>

NextTab(t, fail) ==
    IF Len(pages) = 0
    THEN DivideByZero(Result("next_tab", t, {}), fail)
    ELSE switch_to_tab(Result("next_tab", t, {}), NextIndex, fail)

PreviousTab(t, fail) ==
    IF Len(pages) = 0
    THEN DivideByZero(Result("previous_tab", t, {}), fail)
    ELSE switch_to_tab(Result("previous_tab", t, {}), PrevIndex, fail)

\* close_tab without the decrement of the current index
AdjustIndex_NoDecrement(current, tab_index, n) ==
    IF current >= n THEN n - 1 ELSE current

\* close_tab with the current index left as it was
AdjustIndex_Stale(current, tab_index, n) == current

\* close_tab's adjustment of the current index after pages.pop(tab_index);
\* n is the length of the list after the pop
AdjustIndex(current, tab_index, n) ==
    IF current >= n THEN n - 1
    ELSE IF tab_index <= current /\ current > 0 THEN current - 1
    ELSE current

\* close_tab without the last-tab guard
LastTab_Unguarded == FALSE

\* close_tab's refusal to close the last tab
LastTab == Len(pages) = 1

\* close_tab(tab_index): arg is {} (None) or {i}.
\* fail: "none" | "close" | "bring_to_front"
CloseTab(t, arg, fail) ==
    LET r == Result("close_tab", t, arg)
        tab_index == IF arg = {} THEN current_tab_index ELSE CHOOSE i \in arg : TRUE
        popped == Pop(pages, tab_index)
        current == AdjustIndex(current_tab_index, tab_index, Len(popped))
    IN  IF LastTab \/ InvalidIndex(tab_index)
        THEN /\ fail = "none"
             /\ Called(Failed(r))
             /\ UNCHANGED <<lifeVars, tabVars, logVars, snapVars, created,
                            closedPages>>
        ELSE IF IndexError(pages, tab_index)
        THEN \* self.pages[tab_index] raised
             /\ fail = "none"
             /\ Called(Caught(r, "index"))
             /\ UNCHANGED <<lifeVars, tabVars, logVars, snapVars, created,
                            closedPages>>
        ELSE IF fail = "close"
        THEN \* self.pages[tab_index].close() raised
             /\ Called(Drove(Caught(r, "close")))
             /\ UNCHANGED <<lifeVars, tabVars, logVars, snapVars, created,
                            closedPages>>
        ELSE /\ closedPages' = closedPages \cup {At(pages, tab_index)}
             /\ pages' = popped
             /\ current_tab_index' = current
             /\ IF IndexError(popped, current)
                THEN \* self.pages[self.current_tab_index] raised
                     /\ fail = "none"
                     /\ Called(Drove(Caught(r, "index")))
                     /\ UNCHANGED page
                ELSE /\ page' = PyAt(popped, current)
                     /\ Called(Drove(IF fail = "bring_to_front"
                                     THEN Caught(r, "bring_to_front")
                                     ELSE Ok(r)))
             /\ UNCHANGED <<lifeVars, logVars, snapVars, created>>

\* list_tabs(): the entry reported for index i
TabEntry(i) ==
    [index |-> i, page |-> At(pages, i), isCurrent |-> (i = current_tab_index),
     purpose |-> DictGet(tab_purposes, i, Unknown)]
list_tabs == [i \in 0 .. Len(pages) - 1 |-> TabEntry(i)]

\* the pages close_other_tabs closes: every index but current_tab_index, in order
OtherIndexes == {j \in 0 .. Len(pages) - 1 : j # current_tab_index}

\* the page close_other_tabs keeps
Survivor == page

\* close_other_tabs(); failAt = -1: no close() raises; failAt = j: the close()
\* of the page at index j raises, after the pages before it were closed
CloseOtherTabs(t, failAt) ==
    LET r == Result("close_other_tabs", t, {})
    IN  /\ failAt = -1 \/ failAt \in OtherIndexes
        /\ IF failAt = -1
           THEN /\ closedPages' = closedPages \cup {At(pages, i) : i \in OtherIndexes}
                /\ pages' = <<Survivor>>
                /\ current_tab_index' = 0
                /\ page' = Survivor
                /\ Called([Ok(r) EXCEPT
                              !.driverCalls = IF OtherIndexes = {} THEN 0 ELSE 1])
           ELSE /\ closedPages' = closedPages \cup
                       {At(pages, i) : i \in {j \in OtherIndexes : j < failAt}}
                /\ Called(Drove(Caught(r, "close")))
                /\ UNCHANGED tabVars
        /\ UNCHANGED <<lifeVars, logVars, snapVars, created>>

\* duplicate_tab(tab_index): arg is {} (None) or {i}; url is the driver's
\* answer to pages[tab_index].url, never empty
DuplicateTab(t, arg, url, fail) ==
    LET r == Result("duplicate_tab", t, arg)
        tab_index == IF arg = {} THEN current_tab_index ELSE CHOOSE i \in arg : TRUE
        purpose == DictGet(tab_purposes, tab_index, Unknown)
    IN  IF InvalidIndex(tab_index)
        THEN /\ fail = "none"
             /\ Called(Failed(r))
             /\ UNCHANGED <<lifeVars, tabVars, logVars, snapVars, created,
                            closedPages>>
        ELSE IF IndexError(pages, tab_index)
        THEN \* self.pages[tab_index] raised
             /\ fail = "none"
             /\ Called(Caught(r, "index"))
             /\ UNCHANGED <<lifeVars, tabVars, logVars, snapVars, created,
                            closedPages>>
        ELSE /\ purpose.dup < MaxDup
             /\ open_new_tab(r, url, Duplicate(purpose), fail)

(* ------------------------------ snapshot ------------------------------- *)
\* role sets of extract_interactive
clickable_roles == {"button", "link", "checkbox", "radio", "menuitem", "tab",
                    "switch", "option", "treeitem"}
typeable_roles == {"textbox", "searchbox", "combobox", "spinbutton"}
selectable_roles == {"listbox", "combobox", "menu"}

Interactive(role) ==
    role \in clickable_roles \cup typeable_roles \cup selectable_roles

\* element_type of extract_interactive
ElementType(role) ==
    IF role \in clickable_roles THEN "clickable"
    ELSE IF role \in typeable_roles THEN "typeable"
    ELSE "selectable"

\* the window the driver reports, and _is_in_viewport
Viewport == [width |-> 1, height |-> 1]
InViewport(rect) ==
    /\ rect.x >= 0
    /\ rect.y >= 0
    /\ rect.x < Viewport.width
    /\ rect.y < Viewport.height

\* the keys of seen_elements: f"{role}:{name}:{rect}", or f"{role}:{name}" for
\* a tree element without a rect; rect is <<>> (None) or <<r>>
TreeKey(role, name, rect) ==
    IF rect # <<>> THEN <<role, name, rect[1]>> ELSE <<role, name>>
DomKey(role, name, rect) == <<role, name, rect[1]>>

\* a node of the tree gets a rect only when it has a name: the locators are
\* tried inside `if name:`; box is the bounding box they resolve to
NodeRect(node) == IF node.name # "" THEN node.box ELSE <<>>

\* whether extract_interactive asks _is_in_viewport about the node
AsksViewport(node, viewport_only) ==
    Interactive(node.role) /\ viewport_only /\ NodeRect(node) # <<>>

\* the accumulators of get_interactive_snapshot
NoElements == [elements |-> <<>>, seen |-> {}, node_id |-> 0]

\* the node counter counted up for every interactive node, kept or not
Visit_CountsSkipped(acc, node, viewport_only) ==
    LET rect == NodeRect(node)
        key == TreeKey(node.role, node.name, rect)
        kept == /\ Interactive(node.role)
                /\ ~viewport_only \/ (rect # <<>> /\ InViewport(rect[1]))
                /\ key \notin acc.seen
    IN  [elements |-> IF kept
                      THEN Append(acc.elements,
                                  [nodeId |-> acc.node_id,
                                   type |-> ElementType(node.role),
                                   name |-> node.name, role |-> node.role,
                                   rect |-> rect, description |-> ""])
                      ELSE acc.elements,
         seen |-> IF kept THEN acc.seen \cup {key} ELSE acc.seen,
         node_id |-> IF Interactive(node.role) THEN acc.node_id + 1
                     ELSE acc.node_id]

\* extract_interactive on one node (its children follow it in the pre-order)
Visit(acc, node, viewport_only) ==
    LET rect == NodeRect(node)
        key == TreeKey(node.role, node.name, rect)
    IN  IF /\ Interactive(node.role)
           /\ ~viewport_only \/ (rect # <<>> /\ InViewport(rect[1]))
           /\ key \notin acc.seen
        THEN [elements |-> Append(acc.elements,
                                  [nodeId |-> acc.node_id,
                                   type |-> ElementType(node.role),
                                   name |-> node.name, role |-> node.role,
                                   rect |-> rect, description |-> ""]),
              seen |-> acc.seen \cup {key},
              node_id |-> acc.node_id + 1]
        ELSE acc

\* extract_interactive(snapshot): the depth-first walk, over the pre-order
RECURSIVE Walk(_, _, _, _)
Walk(nodes, k, acc, viewport_only) ==
    IF k > Len(nodes) THEN acc
    ELSE Walk(nodes, k + 1, Visit(acc, nodes[k], viewport_only), viewport_only)

\* _get_dom_form_elements: the conversion of one scanned element
DomElement(elem) ==
    LET kind == IF elem.type = "checkbox" THEN <<"checkbox", "clickable">>
                ELSE IF elem.type = "radio" THEN <<"radio", "clickable">>
                ELSE IF elem.type = "date" \/ elem.isDate
                     THEN <<"textbox", "date-input">>
                ELSE IF elem.tagName = "select" THEN <<"combobox", "selectable">>
                ELSE <<"textbox", "typeable">>
    IN  [type |-> kind[2], name |-> elem.name, role |-> kind[1],
         rect |-> <<elem.rect>>, description |-> "DOM element"]

\* the loop body over dom_inputs
Merge(acc, elem) ==
    LET dom_elem == DomElement(elem)
        key == DomKey(dom_elem.role, dom_elem.name, dom_elem.rect)
    IN  IF key \notin acc.seen
        THEN [elements |-> Append(acc.elements,
                  [nodeId |-> acc.node_id, type |-> dom_elem.type,
                   name |-> dom_elem.name, role |-> dom_elem.role,
                   rect |-> dom_elem.rect, description |-> dom_elem.description]),
              seen |-> acc.seen \cup {key},
              node_id |-> acc.node_id + 1]
        ELSE acc

RECURSIVE MergeAll(_, _, _)
MergeAll(dom_inputs, k, acc) ==
    IF k > Len(dom_inputs) THEN acc
    ELSE MergeAll(dom_inputs, k + 1, Merge(acc, dom_inputs[k]))

\* _get_accessibility_snapshot_with_retry: outs[k] is what attempt k-1 does:
\* "tree" (a tree comes back), "empty" (nothing comes back and the wait
\* passes), "throw" (the fetch or that wait raises and the back-off wait
\* passes) or "abort" (the back-off wait raises as well).
\* The result is "tree", "None" (the attempts ran out) or "raise".
max_retries == 3
Attempts == {"tree", "empty", "throw", "abort"}

\* the helper raising when the attempts run out
RECURSIVE Retry_RaisesWhenEmpty(_, _)
Retry_RaisesWhenEmpty(outs, attempt) ==
    IF attempt >= max_retries THEN "raise"
    ELSE IF outs[attempt + 1] = "tree" THEN "tree"
    ELSE IF outs[attempt + 1] = "abort" THEN "raise"
    ELSE IF outs[attempt + 1] = "throw" /\ attempt = max_retries - 1 THEN "raise"
    ELSE Retry_RaisesWhenEmpty(outs, attempt + 1)

\* the helper swallowing the exception of the last attempt as well
RECURSIVE Retry_SwallowsLast(_, _)
Retry_SwallowsLast(outs, attempt) ==
    IF attempt >= max_retries THEN "None"
    ELSE IF outs[attempt + 1] = "tree" THEN "tree"
    ELSE IF outs[attempt + 1] = "abort" /\ attempt < max_retries - 1 THEN "raise"
    ELSE Retry_SwallowsLast(outs, attempt + 1)

RECURSIVE Retry(_, _)
Retry(outs, attempt) ==
    IF attempt >= max_retries THEN "None"
    ELSE IF outs[attempt + 1] = "tree" THEN "tree"
    ELSE IF outs[attempt + 1] = "abort" THEN "raise"
    ELSE IF outs[attempt + 1] = "throw" /\ attempt = max_retries - 1 THEN "raise"
    ELSE Retry(outs, attempt + 1)

\* the helper waiting after every empty result
WaitsAfterEmpty_Always(attempt) == TRUE

\* `if attempt < max_retries - 1:` after an empty result
WaitsAfterEmpty(attempt) == attempt < max_retries - 1

\* wait_time after an empty result and after an exception; attempt counts
\* from 0 (range(max_retries))
EmptyWait(attempt) == (attempt + 1) * 1000
ErrorWait(attempt) == (2 ^ attempt) * 1000

\* what the helper asks of the driver: for every attempt it makes, the
\* attempt number, what the query gave ("tree", "empty" or "error") and the
\* waits it then asked for, each as <<>> or <<milliseconds>>.  An empty
\* result waits unless the attempt is the last; an exception (of the query, or
\* of that wait: outcome "stall") waits unless the attempt is the last, where
\* it is raised again.
RECURSIVE RetryTrace(_, _)
RetryTrace(outs, attempt) ==
    IF attempt >= max_retries THEN <<>>
    ELSE LET o == outs[attempt + 1]
             last == attempt = max_retries - 1
             step(got, empty_wait, error_wait) ==
                 <<[attempt |-> attempt, got |-> got,
                    emptyWait |-> empty_wait, errorWait |-> error_wait]>>
             asked == IF WaitsAfterEmpty(attempt)
                      THEN <<EmptyWait(attempt)>> ELSE <<>>
             backoff == IF last THEN <<>> ELSE <<ErrorWait(attempt)>>
         IN  IF o = "tree" THEN step("tree", <<>>, <<>>)
             ELSE IF o = "empty"
             THEN step("empty", asked, <<>>) \o RetryTrace(outs, attempt + 1)
             ELSE IF o = "stall"
             THEN step("empty", asked, backoff) \o RetryTrace(outs, attempt + 1)
             ELSE IF o = "throw"
             THEN step("error", <<>>, backoff)
                  \o (IF last THEN <<>> ELSE RetryTrace(outs, attempt + 1))
             ELSE step("error", <<>>, backoff)

\* a page that is gone answers no call
Gone == page = NoPage \/ page \in closedPages

\* a failed snapshot dropping the cached one
Latest_DroppedOnFailure(failed, elements) ==
    IF failed THEN <<>> ELSE <<[elements |-> elements]>>

\* self.snapshot_cache['latest'] after get_interactive_snapshot: the
\* assignment is the last statement before the return, so a call that fails
\* never reaches it
Latest(failed, elements) ==
    IF failed THEN snapshot_cache ELSE <<[elements |-> elements]>>

\* what the readiness wait meets: "ready" (the page is loaded and stable),
\* "unstable" (it is still changing, and the extra wait passes), or the call
\* that raises or times out: "load" (wait_for_load_state), "selector"
\* (wait_for_selector), "evaluate" (the stability script) or "linger" (the
\* extra wait_for_timeout)
Readiness == {"ready", "unstable", "load", "selector", "evaluate", "linger"}

\* the driver calls the readiness wait makes
ReadyCalls(ready) ==
    IF ready = "load" THEN <<"wait_for_load_state">>
    ELSE IF ready = "selector" THEN <<"wait_for_load_state", "wait_for_selector">>
    ELSE IF ready \in {"evaluate", "ready"}
    THEN <<"wait_for_load_state", "wait_for_selector", "evaluate">>
    ELSE <<"wait_for_load_state", "wait_for_selector", "evaluate",
           "wait_for_timeout">>

\* the readiness wait letting the exception of a call through
WaitForPageReady_Raising(ready) ==
    [calls |-> ReadyCalls(ready),
     raised |-> ready \in {"load", "selector", "evaluate", "linger"}]

\* _wait_for_page_ready(): the calls it makes, and whether it raises
WaitForPageReady(ready) == [calls |-> ReadyCalls(ready), raised |-> FALSE]

\* get_interactive_snapshot(viewport_only).  ready: what the readiness wait
\* meets; outs: the outcomes of the tree fetches; fail: "none", "viewport"
\* (_is_in_viewport raises) or "dom" (the DOM scan raises and
\* _get_dom_form_elements returns [])
get_interactive_snapshot(t, viewport_only, ready, outs, fail) ==
    LET waited == WaitForPageReady(ready)
        r == [Result("get_snapshot", t, {}) EXCEPT
                 !.input = [viewport_only |-> viewport_only, ready |-> ready,
                            outs |-> outs, fail |-> fail],
                 !.hasSuccess = FALSE,
                 !.gate = IF page = NoPage THEN <<>> ELSE waited.calls,
                 !.fetch = IF page = NoPage \/ waited.raised THEN <<>>
                           ELSE RetryTrace(outs, 0),
                 !.driverCalls = IF page = NoPage THEN 0 ELSE 1]
        fetched == IF page = NoPage \/ waited.raised THEN "raise"
                   ELSE Retry(outs, 0)
        snapshot == IF fetched = "tree" THEN axTree ELSE <<>>
        walked == Walk(snapshot, 1, NoElements, viewport_only)
        dom_inputs == IF fail = "dom" THEN <<>> ELSE domForm
        merged == MergeAll(dom_inputs, 1, walked)
        asked == \E k \in 1 .. Len(snapshot) : AsksViewport(snapshot[k], viewport_only)
    IN  /\ \A k \in DOMAIN outs :
              outs[k] = "stall" => WaitsAfterEmpty(k - 1) /\ k < max_retries
        /\ fail = "viewport" => (fetched = "tree" /\ asked)
        /\ fail = "dom" => (fetched # "raise" /\ domForm # <<>>)
        /\ Gone => (fail = "none" /\ Retry(outs, 0) = "raise" /\ ready = "load")
        /\ snapshot_cache' =
               Latest(fetched = "raise" \/ fail = "viewport", merged.elements)
        /\ IF fetched = "raise" \/ fail = "viewport"
           THEN Called([r EXCEPT !.error = TRUE, !.threw = "snapshot"])
           ELSE Called([r EXCEPT !.elements = merged.elements])
        /\ UNCHANGED <<lifeVars, tabVars, logVars, pageVars, created,
                       closedPages>>

\* the same on a page that is loaded and stable (a page that is gone fails the
\* first call of the readiness wait)
GetSnapshot(t, viewport_only, outs, fail) ==
    get_interactive_snapshot(t, viewport_only,
                             IF Gone THEN "load" ELSE "ready", outs, fail)

(* ----------------------------- element state --------------------------- *)
\* next((e for e in snapshot['elements'] if e['nodeId'] == node_id), None):
\* the first element with that nodeId, as <<e>>, or <<>>
RECURSIVE Find(_, _, _)
Find(elements, node_id, k) ==
    IF k > Len(elements) THEN <<>>
    ELSE IF elements[k].nodeId = node_id THEN <<elements[k]>>
    ELSE Find(elements, node_id, k + 1)

\* a lookup that refuses a snapshot taken on another page than the active one
Lookup_SamePage(node_id) ==
    IF snapshot_cache = <<>> \/ ret.cachedOn # page THEN <<>>
    ELSE Find(snapshot_cache[1].elements, node_id, 1)

\* the lookup falling back on the first element of the snapshot
Lookup_FirstElement(node_id) ==
    IF snapshot_cache = <<>> THEN <<>>
    ELSE IF Find(snapshot_cache[1].elements, node_id, 1) # <<>>
    THEN Find(snapshot_cache[1].elements, node_id, 1)
    ELSE SubSeq(snapshot_cache[1].elements, 1, 1)

Lookup(node_id) ==
    IF snapshot_cache = <<>> THEN <<>>
    ELSE Find(snapshot_cache[1].elements, node_id, 1)

\* the roles click treats as toggles, and the roles whose checked state
\* get_element_state reads
toggle_roles == {"checkbox", "radio", "switch"}
checked_roles == {"checkbox", "radio"}

\* the state probes of get_element_state, as the driver answers them:
\* count: locator.count() is "some" (> 0), "none" (0) or "throw";
\* on: the control is checked/on;  is_checked, get_attribute, input_value,
\* is_disabled: "ok" or "throw" (asked only of a control that was found)
Probes == {p \in [count : {"some", "none", "throw"}, on : BOOLEAN,
                  is_checked : {"ok", "throw"}, get_attribute : {"ok", "throw"},
                  input_value : {"ok", "throw"}, is_disabled : {"ok", "throw"}] :
              p.count # "some" =>
                  /\ p.is_checked = "ok" /\ p.get_attribute = "ok"
                  /\ p.input_value = "ok" /\ p.is_disabled = "ok"}
\* the probes whose attribute and disabled reads answer
Checking == {p \in Probes : p.get_attribute = "ok" /\ p.is_disabled = "ok"}

\* state_info['checked'] as get_element_state leaves it
Checked(element, probe) ==
    IF element.name = "" \/ probe.count # "some" THEN "absent"
    ELSE IF element.role \notin checked_roles THEN "absent"
    ELSE IF probe.is_checked = "throw" THEN "None"
    ELSE IF probe.on THEN "True" ELSE "False"

\* a value read that is lost when another probe of the call fails
Value_Together(element, probe) ==
    IF element.name = "" \/ probe.count # "some" THEN "absent"
    ELSE IF "throw" \in {probe.is_checked, probe.get_attribute,
                         probe.input_value, probe.is_disabled} THEN "absent"
    ELSE control.value

\* state_info['value'] as get_element_state leaves it
Value(element, probe) ==
    IF element.name = "" \/ probe.count # "some" THEN "absent"
    ELSE IF probe.input_value = "throw" THEN "absent"
    ELSE control.value

\* whether state_info has 'aria_checked' / 'disabled'
HasAriaChecked(element, probe) ==
    element.name # "" /\ probe.count = "some" /\ probe.get_attribute = "ok"
HasDisabled(element, probe) ==
    element.name # "" /\ probe.count = "some" /\ probe.is_disabled = "ok"

\* whether the probes reach the control and answer
Answers(element, probe) ==
    /\ element.name # ""
    /\ probe.count = "some"
    /\ probe.is_checked = "ok"
    /\ probe.input_value = "ok"

\* get_element_state checking the control it reads
GetElementState_Checking(t, node_id, probe) ==
    LET r == Result("get_element_state", t, {node_id})
        found == Lookup(node_id)
    IN  /\ probe.on = control.on
        /\ (Gone /\ found # <<>> /\ found[1].name # "") => probe.count = "throw"
        /\ IF found = <<>>
           THEN Called(Failed(r))
           ELSE Called([Ok(r) EXCEPT
                           !.checked = Checked(found[1], probe),
                           !.value = Value(found[1], probe),
                           !.hasAriaChecked = HasAriaChecked(found[1], probe),
                           !.hasDisabled = HasDisabled(found[1], probe),
                           !.input = probe,
                           !.on = probe.on,
                           !.probed = Answers(found[1], probe),
                           !.error = found[1].name # "" /\ probe.count = "throw",
                           !.driverCalls = IF found[1].name # "" /\ page # NoPage
                                           THEN 1 ELSE 0])
        /\ control' = [control EXCEPT !.on = TRUE]
        /\ UNCHANGED <<lifeVars, tabVars, logVars, snapshot_cache, axTree,
                       domForm, created, closedPages>>

\* get_element_state(node_id)
GetElementState(t, node_id, probe) ==
    LET r == Result("get_element_state", t, {node_id})
        found == Lookup(node_id)
    IN  /\ probe.on = control.on
        /\ (Gone /\ found # <<>> /\ found[1].name # "") => probe.count = "throw"
        /\ IF found = <<>>
           THEN Called(Failed(r))
           ELSE Called([Ok(r) EXCEPT
                           !.checked = Checked(found[1], probe),
                           !.value = Value(found[1], probe),
                           !.hasAriaChecked = HasAriaChecked(found[1], probe),
                           !.hasDisabled = HasDisabled(found[1], probe),
                           !.input = probe,
                           !.on = probe.on,
                           !.probed = Answers(found[1], probe),
                           !.error = found[1].name # "" /\ probe.count = "throw",
                           !.driverCalls = IF found[1].name # "" /\ page # NoPage
                                           THEN 1 ELSE 0])
        /\ UNCHANGED <<lifeVars, tabVars, logVars, snapVars, created, closedPages>>

(* -------------------------------- click -------------------------------- *)
\* what the three click strategies do when tried:
\* s1: "absent" (locator.count() = 0), "wait_throw" (wait_for raises),
\*     "click_throw" (locator.click raises) or "ok";  s2, s3: "ok" or "throw"
\* (a strategy is tried only while none before it has clicked)
Strategies == {st \in [s1 : {"absent", "wait_throw", "click_throw", "ok"},
                       s2 : {"ok", "throw"}, s3 : {"ok", "throw"}] :
                  /\ st.s1 = "ok" => st.s2 = "ok"
                  /\ st.s2 = "ok" => st.s3 = "ok"}

\* a later strategy run whether or not an earlier one clicked
Proceeds_Regardless(clicked, applicable) == applicable

\* `if not clicked and element['rect']:` / `if not clicked and element['name']:`
Proceeds(clicked, applicable) == ~clicked /\ applicable

\* post_state attached whether or not a strategy clicked
HasPostState_Unclicked(clicked, verified) == verified

\* post_state is read inside `if clicked:` and attached when it was read
HasPostState(clicked, verified) == clicked /\ verified

\* the result of click(node_id, verify_action).  fail: "none", "wait" (the
\* opening wait_for_timeout raises) or "settle" (both waits after the click
\* raise)
click(r0, node_id, verify_action, probe, strat, fail) ==
    LET r == [r0 EXCEPT !.verify = verify_action, !.on = probe.on]
        found == Lookup(node_id)
        element == found[1]
        verified == verify_action /\ element.role \in toggle_roles
        pre_checked == Checked(element, probe)
        try1 == element.name # ""
        clicked1 == try1 /\ strat.s1 = "ok"
        try2 == Proceeds(clicked1, element.rect # <<>>)
        clicked2 == try2 /\ strat.s2 = "ok"
        try3 == Proceeds(clicked1 \/ clicked2, element.name # "")
        clicked3 == try3 /\ strat.s3 = "ok"
        clicked == clicked1 \/ clicked2 \/ clicked3
        tried == (IF try1 THEN <<"role">> ELSE <<>>)
                 \o (IF try2 THEN <<"box">> ELSE <<>>)
                 \o (IF try3 THEN <<"text">> ELSE <<>>)
        landed == (IF clicked1 THEN {"role"} ELSE {})
                  \cup (IF clicked2 THEN {"box"} ELSE {})
                  \cup (IF clicked3 THEN {"text"} ELSE {})
        clicks == (IF try1 /\ strat.s1 \in {"click_throw", "ok"} THEN 1 ELSE 0)
                  + (IF try2 THEN 1 ELSE 0) + (IF try3 THEN 1 ELSE 0)
    IN  IF fail = "wait"
        THEN Caught([r EXCEPT !.driverCalls = IF page = NoPage THEN 0 ELSE 1],
                    "wait")
        ELSE IF found = <<>>
        THEN Drove(Failed(r))
        ELSE IF verified /\ pre_checked = "True"
        THEN Drove([Ok(r) EXCEPT
                       !.skipped = TRUE,
                       !.checked = pre_checked,
                       !.probed = Answers(element, probe)])
        ELSE IF fail = "settle"
        THEN Drove([Caught(r, "settle") EXCEPT
                       !.reported = clicked,
                       !.tried = tried, !.landed = landed,
                       !.driverClicks = clicks, !.driverActions = clicks])
        ELSE Drove([r EXCEPT
                       !.success = clicked,
                       !.reported = clicked,
                       !.tried = tried, !.landed = landed,
                       !.probed = verified /\ Answers(element, probe),
                       !.checked = IF verified THEN pre_checked ELSE "absent",
                       !.hasPreState = verified,
                       !.hasPostState = HasPostState(clicked, verified),
                       !.driverClicks = clicks, !.driverActions = clicks])

\* a click that lands toggles the control
Toggled(res) == IF res.reported THEN [control EXCEPT !.on = ~@] ELSE control

\* click(node_id, verify_action)
Click(t, node_id, verify_action, probe, strat, fail) ==
    LET res == click(Result("click", t, {node_id}), node_id, verify_action,
                     probe, strat, fail)
    IN  /\ probe.on = control.on
        /\ Gone => fail = "wait"
        /\ fail = "settle" => res.threw = "settle" /\ res.reported
        /\ Called(res)
        /\ control' = Toggled(res)
        /\ UNCHANGED <<lifeVars, tabVars, logVars, snapshot_cache, axTree,
                       domForm, created, closedPages>>

(* ------------------------------ input_text ----------------------------- *)
\* what the three fill strategies do when tried:
\* s1: "absent" (locator.count() = 0), "throw" (wait_for or fill raises) or
\*     "ok";  s2 (fill by label), s3 (click and type): "ok" or "throw"
\* (a strategy is tried only while none before it has filled)
Fills == {st \in [s1 : {"absent", "throw", "ok"}, s2 : {"ok", "throw"},
                  s3 : {"ok", "throw"}] :
             /\ st.s1 = "ok" => st.s2 = "ok"
             /\ st.s2 = "ok" => st.s3 = "ok"}

\* what the value re-read after an action finds: a value, an empty value (or
\* no input at the position), or it throws
Rereads == {"value", "empty", "throw"}

\* the text the model types
Text == "x"

\* input_text returning failure when its verification finds no value
InputSuccess_Verified(filled, reread) == filled /\ reread # "empty"

\* `return {'success': filled}`: the verification only prints a warning
InputSuccess(filled, reread) == filled

\* input_text(node_id, text).  fail: "none", "wait" (the opening
\* wait_for_timeout raises) or "settle" (the wait after the fill raises)
InputText(t, node_id, fills, verify, fail) ==
    LET r == [Result("input_text", t, {node_id}) EXCEPT
                 !.input = [fills |-> fills, verify |-> verify]]
        found == Lookup(node_id)
        element == found[1]
        try1 == element.name # ""
        filled1 == try1 /\ fills.s1 = "ok"
        try2 == ~filled1 /\ element.name # ""
        filled2 == try2 /\ fills.s2 = "ok"
        try3 == ~filled1 /\ ~filled2 /\ element.rect # <<>>
        filled3 == try3 /\ fills.s3 = "ok"
        filled == filled1 \/ filled2 \/ filled3
        actions == (IF try1 /\ fills.s1 # "absent" THEN 1 ELSE 0)
                   + (IF try2 THEN 1 ELSE 0) + (IF try3 THEN 1 ELSE 0)
        reread == IF filled /\ element.rect # <<>> THEN verify ELSE "none"
        acted == [r EXCEPT !.reported = filled, !.driverActions = actions]
    IN  /\ Gone => fail = "wait"
        /\ fail = "settle" => (found # <<>> /\ filled)
        /\ (fail # "none" \/ found = <<>> \/ ~filled \/ element.rect = <<>>)
              => verify = "value"
        /\ IF fail = "wait"
           THEN /\ Called(Caught([r EXCEPT !.driverCalls =
                                      IF page = NoPage THEN 0 ELSE 1], "wait"))
                /\ UNCHANGED control
           ELSE IF found = <<>>
           THEN /\ Called(Drove(Failed(r)))
                /\ UNCHANGED control
           ELSE /\ Called(Drove(IF fail = "settle"
                                 THEN Caught(acted, "settle")
                                 ELSE [acted EXCEPT
                                          !.success = InputSuccess(filled, reread),
                                          !.reread = reread]))
                /\ control' = IF ~filled THEN control
                              ELSE [control EXCEPT !.value =
                                       IF reread = "empty" THEN "" ELSE Text]
        /\ UNCHANGED <<lifeVars, tabVars, logVars, snapshot_cache, axTree,
                       domForm, created, closedPages>>

(* ------------------------------ select_date ---------------------------- *)
\* A date string is its separator and the groups of digits between the
\* separators, e.g. "01/15/2024" is ["/", <<<<0,1>>, <<1,5>>, <<2,0,2,4>>>>].
RECURSIVE IntOf(_)
\* int(digits)
IntOf(digits) ==
    IF digits = <<>> THEN 0
    ELSE 10 * IntOf(SubSeq(digits, 1, Len(digits) - 1)) + digits[Len(digits)]

\* the days of a month of the proleptic Gregorian calendar
Leap(year) == year % 4 = 0 /\ (year % 100 # 0 \/ year % 400 = 0)
DaysIn(year, month) ==
    IF month = 2 THEN (IF Leap(year) THEN 29 ELSE 28)
    ELSE IF month \in {4, 6, 9, 11} THEN 30 ELSE 31

\* datetime.strptime on three groups given in the order year, month, day:
\* %Y takes exactly four digits, %m and %d one or two; the values must make
\* a date.  <<>> stands for the ValueError, <<date>> for the datetime.
Strptime(y, m, d) ==
    IF /\ Len(y) = 4 /\ IntOf(y) >= 1
       /\ Len(m) \in {1, 2} /\ IntOf(m) \in 1 .. 12
       /\ Len(d) \in {1, 2} /\ IntOf(d) >= 1 /\ IntOf(d) <= DaysIn(IntOf(y), IntOf(m))
    THEN <<[year |-> IntOf(y), month |-> IntOf(m), day |-> IntOf(d)]>>
    ELSE <<>>

\* the parse taking any separator for a dash when no branch matches
ParseDate_AnySeparator(date_string) ==
    LET parts == date_string.parts
    IN  IF Len(parts) # 3 THEN <<>>
        ELSE IF date_string.sep = "-" /\ Len(parts[1]) = 4
        THEN Strptime(parts[1], parts[2], parts[3])
        ELSE IF date_string.sep = "/"
        THEN IF Len(parts[1]) = 4 THEN Strptime(parts[1], parts[2], parts[3])
             ELSE IF IntOf(parts[1]) > 12 THEN Strptime(parts[3], parts[2], parts[1])
             ELSE Strptime(parts[3], parts[1], parts[2])
        ELSE Strptime(parts[1], parts[2], parts[3])

\* the day-first test taking 12 for a day
DayFirst_From12(first) == IntOf(first) >= 12

\* `int(parts[0]) > 12`: the first group cannot be a month
DayFirst(first) == IntOf(first) > 12

\* the parse of select_date: date_obj as <<>> (None) or <<date>>
ParseDate(date_string) ==
    LET parts == date_string.parts
    IN  IF Len(parts) # 3 THEN <<>>
        ELSE IF date_string.sep = "-" /\ Len(parts[1]) = 4
        THEN Strptime(parts[1], parts[2], parts[3])
        ELSE IF date_string.sep = "/"
        THEN IF Len(parts[1]) = 4 THEN Strptime(parts[1], parts[2], parts[3])
             ELSE IF DayFirst(parts[1]) THEN Strptime(parts[3], parts[2], parts[1])
             ELSE Strptime(parts[3], parts[1], parts[2])
        ELSE \* strptime(date_string, "%Y-%m-%d")
             IF date_string.sep = "-"
             THEN Strptime(parts[1], parts[2], parts[3])
             ELSE <<>>

\* date_obj.strftime("%Y-%m-%d")
Digits(n, width) ==
    [k \in 1 .. width |-> (n \div (10 ^ (width - k))) % 10]
Strftime(date) ==
    [sep |-> "-",
     parts |-> <<Digits(date.year, 4), Digits(date.month, 2), Digits(date.day, 2)>>]

\* what the four date strategies do when tried:
\* s1 (script by position): "set", "miss" (no date input there, or another
\*     value read back) or "throw";  s2 (click and type): "ok" or "throw";
\* s3 (script near the Month/Day/Year elements): "filled", "miss" or "throw";
\* s4 (locator fill): "ok", "hidden" or "throw"
\* (a strategy is tried only while none before it has selected)
DateStrategies ==
    {st \in [s1 : {"set", "miss", "throw"}, s2 : {"ok", "throw"},
             s3 : {"filled", "miss", "throw"}, s4 : {"ok", "hidden", "throw"}] :
        /\ st.s1 = "set" => st.s2 = "ok"
        /\ st.s2 = "ok" => st.s3 = "filled"
        /\ st.s3 = "filled" => st.s4 = "ok"}

\* whether the snapshot has an element named like a part of a date
DatePart(name) == name \in {"Month", "Day", "Year"}
HasDateParts ==
    \E k \in DOMAIN snapshot_cache[1].elements :
        DatePart(snapshot_cache[1].elements[k].name)

\* select_date keeping a strategy's success whatever the re-read finds
DateSuccess_Unverified(selected, reread) == selected

\* `if not verify_result.get('hasValue'): selected = False`
DateSuccess(selected, reread) == selected /\ reread # "empty"

\* select_date(node_id, date_string).  fail: "none" or "wait" (the opening
\* wait_for_timeout raises)
SelectDate(t, node_id, date_string, strat, verify, fail) ==
    LET r == [Result("select_date", t, {node_id}) EXCEPT
                 !.input = [date_string |-> date_string, strat |-> strat,
                            verify |-> verify]]
        found == Lookup(node_id)
        element == found[1]
        date_obj == ParseDate(date_string)
        rect == element.rect # <<>>
        selected1 == rect /\ strat.s1 = "set"
        try2 == ~selected1 /\ rect
        selected2 == try2 /\ strat.s2 = "ok"
        try3 == ~selected1 /\ ~selected2 /\ HasDateParts
        selected3 == try3 /\ rect /\ strat.s3 = "filled"
        try4 == ~selected1 /\ ~selected2 /\ ~selected3 /\ element.name # ""
        selected4 == try4 /\ strat.s4 = "ok"
        selected == selected1 \/ selected2 \/ selected3 \/ selected4
        actions == (IF rect THEN 1 ELSE 0) + (IF try2 THEN 1 ELSE 0)
                   + (IF try3 /\ rect THEN 1 ELSE 0) + (IF try4 THEN 1 ELSE 0)
        reread == IF ~selected THEN "none"
                  ELSE IF rect THEN verify
                  ELSE "throw"       \* element['rect']['x'] on None
    IN  /\ Gone => fail = "wait"
        /\ (fail # "none" \/ found = <<>> \/ date_obj = <<>>) =>
               (verify = "value" /\ strat.s1 = "set")
        /\ (found # <<>> /\ ~(selected /\ rect)) => verify = "value"
        /\ IF fail = "wait"
           THEN /\ Called(Caught([r EXCEPT !.driverCalls =
                                      IF page = NoPage THEN 0 ELSE 1], "wait"))
                /\ UNCHANGED control
           ELSE IF found = <<>>
           THEN /\ Called(Drove(Failed(r)))
                /\ UNCHANGED control
           ELSE IF date_obj = <<>>
           THEN /\ Called(Drove(Caught(r, "parse")))
                /\ UNCHANGED control
           ELSE /\ Called(Drove([r EXCEPT
                                    !.success = DateSuccess(selected, reread),
                                    !.reported = selected,
                                    !.reread = reread,
                                    !.date = <<Strftime(date_obj[1])>>,
                                    !.driverActions = actions]))
                /\ control' = IF ~selected THEN control
                              ELSE [control EXCEPT !.value =
                                       IF reread = "empty" THEN "" ELSE Text]
        /\ UNCHANGED <<lifeVars, tabVars, logVars, snapshot_cache, axTree,
                       domForm, created, closedPages>>

(* ------------------------- select_dropdown_option ---------------------- *)
\* select_dropdown_option(node_id, option_text).
\* s1: what select_option by role and name does: "absent", "throw" or "ok";
\* probe, strat, cfail: what the driver does during the self.click(node_id)
\* of strategy 2;  opt: "ok" when one of the option selectors can be clicked,
\* "none" when none can, "throw" when the wait before them raises;
\* fail: "none", "wait" or "settle" (the waits around the strategies)
SelectDropdownOption(t, node_id, s1, probe, strat, cfail, opt, fail) ==
    LET r == Result("select_dropdown_option", t, {node_id})
        found == Lookup(node_id)
        element == found[1]
        selected1 == element.name # "" /\ s1 = "ok"
        opened == click(Result("click", t, {node_id}), node_id, TRUE, probe,
                        strat, cfail)
        selected2 == ~selected1 /\ opened.success /\ opt = "ok"
        selected == selected1 \/ selected2
        actions == (IF element.name # "" /\ s1 # "absent" THEN 1 ELSE 0)
                   + (IF selected1 THEN 0 ELSE opened.driverActions)
                   + (IF ~selected1 /\ opened.success /\ opt # "throw"
                      THEN 1 ELSE 0)
        acted == [r EXCEPT !.reported = selected, !.driverActions = actions]
    IN  /\ probe.on = control.on
        /\ Gone => fail = "wait"
        /\ fail = "settle" => (found # <<>> /\ selected)
        /\ IF fail = "wait"
           THEN /\ Called(Caught([r EXCEPT !.driverCalls =
                                      IF page = NoPage THEN 0 ELSE 1], "wait"))
                /\ UNCHANGED control
           ELSE IF found = <<>>
           THEN /\ Called(Drove(Failed(r)))
                /\ UNCHANGED control
           ELSE /\ Called(Drove(IF fail = "settle"
                                 THEN Caught(acted, "settle")
                                 ELSE [acted EXCEPT !.success = selected]))
                /\ control' = IF selected1 THEN control ELSE Toggled(opened)
        /\ UNCHANGED <<lifeVars, tabVars, logVars, snapshot_cache, axTree,
                       domForm, created, closedPages>>

(* ------------------------------ page reads ----------------------------- *)
\* check_for_form_errors, get_page_load_status, get_page_content and
\* capture_screenshot: one driver read each.  On success the dict has the
\* data and neither 'success' nor 'error'; when the read raises it has 'error'.
\* fail: "none" | "throw"
PageRead(op, t, fail) ==
    LET r == [Result(op, t, {}) EXCEPT
                 !.hasSuccess = FALSE,
                 !.driverCalls = IF page = NoPage THEN 0 ELSE 1]
    IN  /\ Gone => fail = "throw"
        /\ Called(IF fail = "throw"
                  THEN [r EXCEPT !.error = TRUE, !.threw = "read"]
                  ELSE r)
        /\ UNCHANGED <<lifeVars, tabVars, logVars, snapVars, created, closedPages>>

CheckForFormErrors(t, fail) == PageRead("check_for_form_errors", t, fail)
GetPageLoadStatus(t, fail) == PageRead("get_page_load_status", t, fail)
GetPageContent(t, fail) == PageRead("get_page_content", t, fail)
CaptureScreenshot(t, fail) == PageRead("capture_screenshot", t, fail)

(* ---------------------------- specifications --------------------------- *)
\* inputs of the tab operations
TabIndexes == -1 .. MaxPages
TabArgs == {{}} \cup {{i} : i \in TabIndexes}
AnyUrl == Urls \cup {NoUrl}
AnyPurpose == Purposes \cup {NoPurpose}

\* the tab manager, driven from the worker thread: start, close and the tab
\* operations, in any order and with any driver call failing
TabNext ==
    \/ Start(Worker)
    \/ Close(Worker)
    \/ \E u \in AnyUrl, f \in {"none", "new_page", "goto", "bring_to_front"} :
          OpenNewTab(Worker, u, NoPurpose, f)
    \/ \E i \in TabIndexes, f \in {"none", "bring_to_front"} :
          SwitchToTab(Worker, i, f)
    \/ \E f \in {"none", "bring_to_front"} : NextTab(Worker, f)
    \/ \E f \in {"none", "bring_to_front"} : PreviousTab(Worker, f)
    \/ \E a \in TabArgs, f \in {"none", "close", "bring_to_front"} :
          CloseTab(Worker, a, f)
    \/ \E k \in -1 .. MaxPages : CloseOtherTabs(Worker, k)
    \/ \E a \in TabArgs, u \in Urls,
          f \in {"none", "new_page", "goto", "bring_to_front"} :
          DuplicateTab(Worker, a, u, f)

Spec == Init /\ [][TabNext]_vars

\* the same behaviours, with runs of next_tab / previous_tab calls counted
SpecCycle == InitCounting /\ [][TabNext]_vars

\* the pages the snapshot specifications look at: accessibility trees of up
\* to MaxNodes nodes in pre-order and DOM scans of up to MaxDom elements.
\* One rect lies inside the viewport and one below it.
Rects == {[x |-> 0, y |-> 0], [x |-> 0, y |-> 1]}
Boxes == {<<>>} \cup {<<rect>> : rect \in Rects}
Names == {"", "A"}
TreeRoles == {"checkbox", "switch", "generic"}
Nodes == {n \in [role : TreeRoles, name : Names, box : Boxes] :
             n.name = "" => n.box = <<>>}
SeqsUpTo(S, n) == UNION {[1 .. k -> S] : k \in 0 .. n}
Trees == SeqsUpTo(Nodes, MaxNodes)

\* what the DOM scan returns: every element has a name ('unnamed' at least)
\* and no two elements share a position (seenRects)
Scanned == [type : {"checkbox", "text"}, tagName : {"input"}, name : {"A"},
            rect : Rects, isDate : {FALSE}]
Scans == {d \in SeqsUpTo(Scanned, MaxDom) :
             \A i, j \in DOMAIN d : d[i].rect = d[j].rect => i = j}

\* runs of the tree fetch: every attempt alike, and two mixed runs
Fetches == {[k \in 1 .. max_retries |-> a] : a \in Attempts}
           \cup {<<"empty", "throw", "tree">>, <<"throw", "empty", "empty">>}

\* snapshots of any page, taken from the worker thread
InitSnapshot == Constructed(Trees, Scans, Untracked)
SnapshotNext ==
    \/ Start(Worker)
    \/ \E v \in BOOLEAN, outs \in Fetches, f \in {"none", "viewport", "dom"} :
          GetSnapshot(Worker, v, outs, f)
SpecSnapshot == InitSnapshot /\ [][SnapshotNext]_vars

\* clicks and state reads on a page with one control in the tree
Controls == {t \in Trees : Len(t) = 1 /\ Interactive(t[1].role)}
InitClick == Constructed(Controls, {<<>>}, Untracked)
ClickNext ==
    \/ Start(Worker)
    \/ \E v \in BOOLEAN, outs \in Fetches, f \in {"none", "viewport"} :
          GetSnapshot(Worker, v, outs, f)
    \/ \E n \in 0 .. 1, probe \in Probes : GetElementState(Worker, n, probe)
    \/ \E n \in 0 .. 1, verify \in BOOLEAN, probe \in Checking,
          strat \in Strategies, f \in {"none", "wait", "settle"} :
          Click(Worker, n, verify, probe, strat, f)
SpecClick == InitClick /\ [][ClickNext]_vars

\* the entry points called from any thread, on a page with one checkbox that
\* the locators find and the first strategy clicks
Answering == {p \in Checking : p.count # "none" /\ p.is_checked = "ok"}
Clicking == [s1 |-> "ok", s2 |-> "ok", s3 |-> "ok"]
InitThreads ==
    Constructed({<<[role |-> "checkbox", name |-> "A", box |-> <<[x |-> 0, y |-> 0]>>]>>},
                {<<>>}, Untracked)
ThreadsNext ==
    \/ \E t \in Threads : Start(t)
    \/ \E t \in Threads : Close(t)
    \/ \E t \in Threads, u \in Urls, f \in {"none", "goto"} :
          Navigate(t, u, NoPurpose, f)
    \/ \E t \in Threads, outs \in Fetches : GetSnapshot(t, TRUE, outs, "none")
    \/ \E t \in Threads, probe \in Answering : GetElementState(t, 0, probe)
    \/ \E t \in Threads, probe \in Answering, f \in {"none", "wait"} :
          Click(t, 0, TRUE, probe, Clicking, f)
    \/ \E t \in Threads, f \in {"none", "new_page"} :
          OpenNewTab(t, NoUrl, NoPurpose, f)
    \/ \E t \in Threads, i \in TabIndexes : SwitchToTab(t, i, "none")
    \/ \E t \in Threads : NextTab(t, "none")
    \/ \E t \in Threads, a \in TabArgs : CloseTab(t, a, "none")
    \/ \E t \in Threads : CloseOtherTabs(t, -1)
SpecThreads == InitThreads /\ [][ThreadsNext]_vars

\* the action operations on a page with one field in the tree, with every
\* outcome of the fill and date strategies and of the re-read after them;
\* the click inside select_dropdown_option lands at once or not at all
Fields1 == {<<[role |-> role, name |-> n, box |-> b]>> :
               role \in {"combobox", "checkbox"}, n \in {"A", "Month"},
               b \in {<<>>, <<[x |-> 0, y |-> 0]>>}}
           \cup {<<[role |-> "combobox", name |-> "", box |-> <<>>]>>}
Missing == [s1 |-> "absent", s2 |-> "throw", s3 |-> "throw"]
Jan15 == [sep |-> "/", parts |-> <<<<0, 1>>, <<1, 5>>, <<2, 0, 2, 4>>>>]
Dotted == [sep |-> ".", parts |-> <<<<0, 1>>, <<1, 5>>, <<2, 0, 2, 4>>>>]
Whole == <<"tree", "tree", "tree">>
InitActions == Constructed(Fields1, {<<>>}, Untracked)
ActionsNext ==
    \/ Start(Worker)
    \/ \E f \in {"none", "viewport"} : GetSnapshot(Worker, FALSE, Whole, f)
    \/ \E n \in 0 .. 1, probe \in Probes : GetElementState(Worker, n, probe)
    \/ \E n \in 0 .. 1, probe \in Answering, strat \in {Clicking, Missing},
          f \in {"none", "wait", "settle"} :
          Click(Worker, n, FALSE, probe, strat, f)
    \/ \E n \in 0 .. 1, fills \in Fills, verify \in Rereads,
          f \in {"none", "wait", "settle"} :
          InputText(Worker, n, fills, verify, f)
    \/ \E n \in 0 .. 1, d \in {Jan15, Dotted}, strat \in DateStrategies,
          verify \in Rereads, f \in {"none", "wait"} :
          SelectDate(Worker, n, d, strat, verify, f)
    \/ \E n \in 0 .. 1, s1 \in {"absent", "throw", "ok"},
          probe \in {p \in Answering : p.count = "some" /\ p.input_value = "ok"},
          strat \in {Clicking, Missing}, opt \in {"ok", "none", "throw"},
          f \in {"none", "wait", "settle"} :
          SelectDropdownOption(Worker, n, s1, probe, strat, "none", opt, f)
    \/ \E f \in {"none", "throw"} : CheckForFormErrors(Worker, f)
    \/ \E f \in {"none", "throw"} : GetPageLoadStatus(Worker, f)
    \/ \E f \in {"none", "throw"} : GetPageContent(Worker, f)
    \/ \E f \in {"none", "throw"} : CaptureScreenshot(Worker, f)
SpecActions == InitActions /\ [][ActionsNext]_vars

\* select_date on a date field, given every string of three groups of digits
\* from DateDigits around one separator, and some strings of two groups
DateDigits == {<<2, 0, 2, 4>>, <<2, 0, 2, 3>>, <<1>>, <<0, 1>>, <<0, 2>>,
               <<1, 2>>, <<1, 5>>, <<2, 9>>, <<3, 1>>}
DateStrings ==
    [sep : {"-", "/", "."}, parts : [1 .. 3 -> DateDigits]]
    \cup [sep : {"-", "/"}, parts : [1 .. 2 -> {<<0, 1>>, <<2, 0, 2, 4>>}]]
Setting == [s1 |-> "set", s2 |-> "ok", s3 |-> "filled", s4 |-> "ok"]
InitDates ==
    Given({<<[role |-> "textbox", name |-> "A", box |-> <<[x |-> 0, y |-> 0]>>]>>},
          {<<>>}, DateStrings, Untracked)
DatesNext ==
    \/ Start(Worker)
    \/ GetSnapshot(Worker, TRUE, Whole, "none")
    \/ \E verify \in {"value", "empty"} :
          SelectDate(Worker, 0, dateArg, Setting, verify, "none")
SpecDates == InitDates /\ [][DatesNext]_vars

\* navigations across sites with one or more tabs open, and the navigation
\* context asked in between; one url is written without a scheme
Sites == {[scheme |-> "https", host |-> h] : h \in {"a.com", "b.com", "c.com"}}
         \cup {[scheme |-> "", host |-> "a.com"]}
ContextNext ==
    \/ Start(Worker)
    \/ \E u \in Sites, f \in {"none", "goto"} :
          navigate(MaxVisits, Worker, u, NoPurpose, f)
    \/ OpenNewTab(Worker, NoUrl, NoPurpose, "none")
    \/ GetNavigationContext(Worker)
SpecContext == Init /\ [][ContextNext]_vars

\* snapshots of one page under every run of the tree fetch: each attempt
\* gives a tree, nothing, an exception, an exception met by a raising
\* back-off wait, or nothing and a raising wait
Outcomes == Attempts \cup {"stall"}
Runs == [1 .. max_retries -> Outcomes]
InitRetry ==
    Constructed({<<[role |-> "checkbox", name |-> "A", box |-> <<[x |-> 0, y |-> 0]>>]>>},
                Scans, Untracked)
RetryNext ==
    \/ Start(Worker)
    \/ \E outs \in Runs, f \in {"none", "dom"} : GetSnapshot(Worker, TRUE, outs, f)
SpecRetry == InitRetry /\ [][RetryNext]_vars

\* snapshots of that page behind every outcome of the readiness wait
ReadyNext ==
    \/ Start(Worker)
    \/ \E v \in BOOLEAN, ready \in Readiness, outs \in Fetches,
          f \in {"none", "viewport", "dom"} :
          get_interactive_snapshot(Worker, v, ready, outs, f)
SpecReady == InitRetry /\ [][ReadyNext]_vars

\* snapshots of form pages: a tree of at most one node and a DOM scan of at
\* most one element (a checkbox, a text input, a date input or a select).
\* The boxes are as the driver reports them, with fractions of a pixel and a
\* width: here in tenths of a pixel, at x = 10.0 or 10.4 and 50 or 30 wide.
FormRects == {[x |-> 100, y |-> 200, width |-> 500],
              [x |-> 104, y |-> 200, width |-> 500],
              [x |-> 100, y |-> 200, width |-> 300]}
FormNodes == [role : {"checkbox", "textbox", "combobox", "generic"},
              name : {"A"}, box : {<<>>} \cup {<<rect>> : rect \in FormRects}]
FormInputs ==
    {e \in [type : {"checkbox", "text", "date", "select-one"},
            tagName : {"input", "select"}, name : {"A"}, rect : FormRects,
            isDate : BOOLEAN] :
        /\ e.isDate <=> e.type = "date"
        /\ e.tagName = "select" <=> e.type = "select-one"}
InitForms ==
    Constructed(SeqsUpTo(FormNodes, 1), SeqsUpTo(FormInputs, 1), Untracked)
FormsNext ==
    \/ Start(Worker)
    \/ \E f \in {"none", "dom"} : GetSnapshot(Worker, FALSE, Whole, f)
SpecForms == InitForms /\ [][FormsNext]_vars

(* ------------------------------- server ------------------------------- *)
\* server.py.  Its handlers are coroutines of one event loop; every await of
\* a job lets other handlers run.  loop.run_in_executor(playwright_executor, f)
\* queues f on the executor's one thread (Worker); asyncio.to_thread(f) runs f
\* on a thread of the default pool (Other).  A job is [op, by, phase]: what
\* it calls, the handler that awaits it, and "queued", "calling", "called" or
\* "raised".
Job(op, by) == [op |-> op, by |-> by, phase |-> "queued"]
Jobs == {running[t] : t \in Threads}
        \cup {playwright_executor[k] : k \in DOMAIN playwright_executor}
Pending(op) == \E j \in Jobs : j.op = op

\* loop.run_in_executor(playwright_executor, ...)
Submit(job) == playwright_executor' = Append(playwright_executor, job)

\* `if current_task:` letting every request through
TaskRunning_Never == FALSE

\* `if current_task:` of run_task and stop_browser
TaskRunning == current_task # "None"

\* the _create_and_start_agent jobs queued or running
Creating ==
    Cardinality({k \in DOMAIN playwright_executor :
                    playwright_executor[k].op = "create_and_start"})
    + Cardinality({t \in Threads : running[t].op = "create_and_start"})

\* POST /start, up to its await: `if agent:` answers at once, else the
\* creation of an agent is queued (the reply follows in Done)
StartBrowser ==
    IF agent # "None"
    THEN /\ reply' = Reply("start", "already_running")
         /\ UNCHANGED <<controllerVars, loopVars, agent, profile_browser, current_task,
                        playwright_executor, running, tasks, sessions>>
    ELSE /\ Submit(Job("create_and_start", "start"))
         /\ UNCHANGED <<controllerVars, globalVars, running>>

\* POST /task (POST /flows/{id}/rerun ends in the same run_task) and
\* run_agent_task, up to the first await: under task_lock, a request that
\* finds current_task set is answered 409; any other sets it and goes on
RunTask ==
    IF TaskRunning
    THEN /\ reply' = Reply("task", "409")
         /\ UNCHANGED <<controllerVars, loopVars, agent, profile_browser, current_task,
                        playwright_executor, running, tasks, sessions>>
    ELSE /\ tasks' = tasks + 1
         /\ IF agent = "None"
            THEN /\ Submit(Job("create_and_start", "task"))
                 /\ current_task' = "starting"
            ELSE /\ current_task' = "ready"
                 /\ UNCHANGED playwright_executor
         /\ UNCHANGED <<controllerVars, loopVars, agent, profile_browser, running,
                        reply, sessions>>

\* run_agent_with_events: `if initial_url:` navigate on the executor
TaskNavigate(initial_url) ==
    /\ current_task = "ready"
    /\ IF HasUrl(initial_url)
       THEN /\ Len(navigation_history) < MaxHistory
            /\ Submit(Job("navigate", "task"))
            /\ current_task' = "navigating"
       ELSE /\ current_task' = "looping"
            /\ UNCHANGED playwright_executor
    /\ UNCHANGED <<controllerVars, loopVars, agent, profile_browser, running, requestVars>>

\* run_agent_with_events: one tool call of an iteration, on the executor
TaskTool(tool) ==
    /\ current_task = "looping"
    /\ Submit(Job(tool, "task"))
    /\ current_task' = "tool"
    /\ UNCHANGED <<controllerVars, loopVars, agent, profile_browser, running, requestVars>>

\* run_agent_task: the task is over.  outcome: "completed", "failed" (the
\* agent raised; the except branch reports it) or "unsaved" (save_flow raises
\* inside the finally block, before its last statement current_task = None)
TaskEnd(outcome) ==
    /\ current_task = "looping"
    /\ tasks' = tasks - 1
    /\ current_task' = IF outcome = "unsaved" THEN "over" ELSE "None"
    /\ reply' = Reply("task", IF outcome = "unsaved" THEN "500" ELSE outcome)
    /\ UNCHANGED <<controllerVars, loopVars, agent, profile_browser, playwright_executor,
                   running, sessions>>

\* POST /stop, up to its await: asyncio.to_thread(_close_agent, agent), unless
\* no agent is set or a task is running
StopBrowser ==
    IF agent = "None" \/ TaskRunning
    THEN /\ reply' = Reply("stop", IF agent = "None" THEN "not_running" ELSE "busy")
         /\ UNCHANGED <<controllerVars, loopVars, agent, profile_browser, current_task,
                        playwright_executor, running, tasks, sessions>>
    ELSE /\ running[Other] = Idle
         /\ running' = [running EXCEPT ![Other] =
                           [Job("close", "stop") EXCEPT !.phase = "calling"]]
         /\ UNCHANGED <<controllerVars, globalVars, playwright_executor>>

\* GET /status
Status ==
    /\ reply' = [Reply("status", "report") EXCEPT
                    !.browser_running = agent # "None",
                    !.task_running = current_task # "None"]
    /\ UNCHANGED <<controllerVars, loopVars, agent, profile_browser, current_task,
                   playwright_executor, running, tasks, sessions>>

\* POST /profile/start, up to its first await
StartProfileBrowser(url) ==
    /\ agent = "None"
    /\ profile_browser = NoThread
    /\ ~Pending("profile_start")
    /\ Submit(Job("profile_start", IF HasUrl(url) THEN "profile_url" ELSE "profile"))
    /\ UNCHANGED <<controllerVars, globalVars, running>>

\* POST /profile/stop, up to its await
StopProfileBrowser ==
    /\ profile_browser # NoThread
    /\ ~Pending("profile_close")
    /\ Submit(Job("profile_close", "profile"))
    /\ UNCHANGED <<controllerVars, globalVars, running>>

\* the executor's thread takes the next job
Take ==
    /\ running[Worker] = Idle
    /\ playwright_executor # <<>>
    /\ running' = [running EXCEPT ![Worker] =
                      [Head(playwright_executor) EXCEPT !.phase = "calling"]]
    /\ playwright_executor' = Tail(playwright_executor)
    /\ UNCHANGED <<controllerVars, globalVars>>

\* the jobs' calls into the agent's controller, on the thread running the job
Calling(t, op) == running[t].phase = "calling" /\ running[t].op = op
CallStart(t) == Calling(t, "create_and_start") /\ Start(t)
CallNavigate(t, url) == Calling(t, "navigate") /\ Navigate(t, url, NoPurpose, "none")
CallSnapshot(t) ==
    /\ Calling(t, "getInteractiveSnapshot")
    /\ GetSnapshot(t, TRUE, [k \in 1 .. max_retries |-> "tree"], "none")
CallClick(t, probe) ==
    /\ Calling(t, "click")
    /\ Click(t, 0, TRUE, probe, [s1 |-> "ok", s2 |-> "ok", s3 |-> "ok"], "none")
CallClose(t) == Calling(t, "close") /\ Close(t)

\* _create_and_start_agent while an agent made before it has its browser open:
\* a second BrowserAgent with a controller of its own starts on the same
\* profile directory.  launch: "ok", or "refused" (the browser does not open a
\* profile that is in use, and start() raises).  The model goes on following
\* the controller of the first agent.
CallStartAgain(t, launch) ==
    /\ Calling(t, "create_and_start")
    /\ playwright # "None"
    /\ running' = [running EXCEPT ![t].phase =
                      IF launch = "ok" THEN "called" ELSE "raised"]
    /\ UNCHANGED <<controllerVars, globalVars, playwright_executor>>

\* _start_profile_browser / profile_browser.navigate / _close_profile_browser:
\* calls into the profile browser, a controller of its own of which the model
\* keeps the thread that started it
CallProfile(t) ==
    /\ running[t].phase = "calling"
    /\ running[t].op \in {"profile_start", "profile_navigate", "profile_close"}
    /\ running' = [running EXCEPT ![t].phase =
                      IF /\ running[t].op = "profile_close"
                         /\ profile_browser # NoThread
                         /\ t # profile_browser
                      THEN "raised" ELSE "called"]
    /\ UNCHANGED <<controllerVars, globalVars, playwright_executor>>

\* the job returns and the handler awaiting it goes on: /start and /stop
\* assign the global agent and reply (500 when the job raised); a task whose
\* agent could not be created ends as failed
Done(t) ==
    LET job == running[t]
        uncreated == job.by = "task" /\ job.op = "create_and_start"
                     /\ job.phase = "raised"
    IN  /\ job.phase \in {"called", "raised"}
        /\ running' = [running EXCEPT ![t] = Idle]
        /\ agent' = IF job.op = "create_and_start" /\ job.phase = "called"
                    THEN "agent"
                    ELSE IF job.op = "close" /\ job.phase = "called" THEN "None"
                    ELSE agent
        /\ sessions' =
              IF job.op = "create_and_start" /\ job.phase = "called"
              THEN sessions + 1
              ELSE IF job.op = "close" /\ job.phase = "called"
              THEN sessions - 1
              ELSE sessions
        /\ profile_browser' =
              IF job.op = "profile_start" /\ job.phase = "called" THEN t
              ELSE IF job.op = "profile_close" /\ job.phase = "called" THEN NoThread
              ELSE profile_browser
        /\ current_task' =
              IF job.by # "task" THEN current_task
              ELSE IF job.op = "create_and_start"
              THEN (IF job.phase = "called" THEN "ready" ELSE "None")
              ELSE "looping"
        /\ tasks' = IF uncreated THEN tasks - 1 ELSE tasks
        /\ reply' =
              IF job.by \in {"start", "stop"}
              THEN Reply(job.by, IF job.phase = "raised" THEN "500"
                                 ELSE IF job.by = "start" THEN "started"
                                 ELSE "stopped")
              ELSE IF uncreated THEN Reply("task", "failed")
              ELSE reply
        /\ playwright_executor' =
              IF job.op = "profile_start" /\ job.by = "profile_url"
                 /\ job.phase = "called"
              THEN Append(playwright_executor, Job("profile_navigate", "profile"))
              ELSE playwright_executor
        /\ UNCHANGED <<controllerVars, loopVars>>

\* the tools of the model's tasks, and how a task ends
Tools == {"getInteractiveSnapshot", "click"}
Endings == {"completed", "failed", "unsaved"}

\* the server with one creation of an agent under way at a time
ServerNext ==
    \/ (agent = "None" => ~Pending("create_and_start")) /\ StartBrowser
    \/ (agent = "None" /\ ~TaskRunning => ~Pending("create_and_start")) /\ RunTask
    \/ \E u \in AnyUrl : TaskNavigate(u)
    \/ \E tool \in Tools : TaskTool(tool)
    \/ \E o \in Endings : TaskEnd(o)
    \/ StopBrowser
    \/ Status
    \/ \E u \in AnyUrl : StartProfileBrowser(u)
    \/ StopProfileBrowser
    \/ Take
    \/ \E t \in Threads : CallStart(t)
    \/ \E t \in Threads, u \in Urls : CallNavigate(t, u)
    \/ \E t \in Threads : CallSnapshot(t)
    \/ \E t \in Threads, probe \in Answering : CallClick(t, probe)
    \/ \E t \in Threads : CallClose(t)
    \/ \E t \in Threads : CallProfile(t)
    \/ \E t \in Threads : Done(t)
SpecServer == InitThreads /\ [][ServerNext]_vars

\* the server with up to MaxCreates requests finding no agent set before the
\* first of them has assigned one
RaceNext ==
    \/ (agent = "None" => Creating < MaxCreates) /\ StartBrowser
    \/ (agent = "None" /\ ~TaskRunning => Creating < MaxCreates) /\ RunTask
    \/ \E u \in AnyUrl : TaskNavigate(u)
    \/ \E tool \in Tools : TaskTool(tool)
    \/ \E o \in Endings : TaskEnd(o)
    \/ Status
    \/ Take
    \/ \E t \in Threads : CallStart(t)
    \/ \E t \in Threads, launch \in {"ok", "refused"} : CallStartAgain(t, launch)
    \/ \E t \in Threads, u \in Urls : CallNavigate(t, u)
    \/ \E t \in Threads : CallSnapshot(t)
    \/ \E t \in Threads, probe \in Answering : CallClick(t, probe)
    \/ \E t \in Threads : Done(t)
SpecRace == InitThreads /\ [][RaceNext]_vars

(* ------------------------------ agent loop ----------------------------- *)
\* BrowserAgent.run (agent.py), called without an initial_url.  The model
\* keeps the conversation: a message has a role, the ids of the tool calls an
\* assistant message carries and the id a tool message answers.  A tool call
\* has an id and the name of its tool; execute_tool always returns (it catches
\* what the controller raises), and what the controller does is left out here.
Message(role, tool_calls, tool_call_id) ==
    [role |-> role, tool_calls |-> tool_calls, tool_call_id |-> tool_call_id]

\* what chat_completion gives: it raises, or answers with or without content
\* and with up to MaxCalls tool calls
Responses ==
    {r \in [raises : BOOLEAN, content : BOOLEAN,
            tool_calls : SeqsUpTo({"getInteractiveSnapshot", "click"}, MaxCalls)] :
        r.raises => (~r.content /\ r.tool_calls = <<>>)}

\* recent_tools.append(function_name), keeping the last five
Recent(called, function_name) ==
    LET appended == Append(called, function_name)
    IN  IF Len(appended) > 5 THEN Tail(appended) ELSE appended

\* len(recent_tools) >= 3 and len(set(recent_tools[-3:])) == 1
LoopDetected(called) ==
    /\ Len(called) >= 3
    /\ called[Len(called)] = called[Len(called) - 1]
    /\ called[Len(called)] = called[Len(called) - 2]

\* `for tool_call in response.tool_calls:` from the k-th call on: the hint of
\* the loop detector, if it fires, then the tool's result
RECURSIVE ExecuteCalls(_, _, _, _)
ExecuteCalls(calls, k, history, called) ==
    IF k > Len(calls) THEN [history |-> history, recent |-> called]
    ELSE LET seen == Recent(called, calls[k].name)
             hinted == IF LoopDetected(seen)
                       THEN Append(history, Message("user", <<>>, <<>>))
                       ELSE history
         IN  ExecuteCalls(calls, k + 1,
                          Append(hinted, Message("tool", <<>>, <<calls[k].id>>)),
                          seen)

\* run(), up to the loop: the system prompt and the user's message
Run ==
    /\ loop \in {"idle", "returned"}
    /\ conversation_history' =
           <<Message("system", <<>>, <<>>), Message("user", <<>>, <<>>)>>
    /\ recent_tools' = <<>>
    /\ iteration' = 0
    /\ loop' = "running"
    /\ UNCHANGED <<controllerVars, agent, profile_browser, current_task,
                   playwright_executor, running, requestVars>>

\* one iteration of the loop of run(): the call of the model and what follows
\* from its response; after max_iterations of them run() returns
Iterate(response) ==
    LET calls == [k \in DOMAIN response.tool_calls |->
                     [id |-> <<iteration, k>>, name |-> response.tool_calls[k]]]
        ids == [k \in DOMAIN calls |-> calls[k].id]
        asked == Append(conversation_history, Message("assistant", ids, <<>>))
        executed == ExecuteCalls(calls, 1, asked, recent_tools)
        finished == response.content /\ response.tool_calls = <<>>
    IN  /\ loop = "running"
        /\ iteration < max_iterations
        /\ iteration' = iteration + 1
        /\ conversation_history' =
               IF response.raises THEN conversation_history
               ELSE IF finished
               THEN Append(conversation_history, Message("assistant", <<>>, <<>>))
               ELSE IF response.tool_calls # <<>> THEN executed.history
               ELSE conversation_history
        /\ recent_tools' =
               IF response.tool_calls # <<>> THEN executed.recent
               ELSE recent_tools
        /\ loop' = IF response.raises \/ finished
                      \/ iteration + 1 = max_iterations
                   THEN "returned" ELSE "running"
        /\ UNCHANGED <<controllerVars, agent, profile_browser, current_task,
                       playwright_executor, running, requestVars>>

AgentNext ==
    \/ Run
    \/ \E response \in Responses : Iterate(response)
SpecAgent == Init /\ [][AgentNext]_vars

(* ------------------------------- claims -------------------------------- *)
\* the explicit index a call was given (close_tab, switch_to_tab)
ArgIndex == CHOOSE i \in ret.arg : TRUE
LastIndex == Len(pages) - 1

\* whether the element at every list position i (from 0) has nodeId i
Numbered(elements) ==
    \A i \in DOMAIN elements : elements[i].nodeId = i - 1

\* whether no element of the DOM pass precedes an element of the tree walk
TreeFirst(elements) ==
    \A i, j \in DOMAIN elements :
        (elements[i].description = "DOM element" /\ elements[j].description = "")
            => j < i

\* C1: in every snapshot get_interactive_snapshot returns (and caches), for
\* any tree, any DOM scan and either viewport_only value, the element at list
\* position i has nodeId i: the ids are unique, start at 0 and have no gaps,
\* and the elements only the DOM pass found follow the elements of the tree
\* walk and continue their numbering.
C1_NodeIdIsPosition ==
    /\ ret.op = "get_snapshot" =>
           Numbered(ret.elements) /\ TreeFirst(ret.elements)
    /\ snapshot_cache # <<>> =>
           Numbered(snapshot_cache[1].elements)
           /\ TreeFirst(snapshot_cache[1].elements)

\* a snapshot with elements of both passes, taken of a page of which the
\* walk or the merge dropped something
C1_Witness ==
    /\ ret.op = "get_snapshot"
    /\ ~ret.error
    /\ Len(ret.elements) >= 3
    /\ Len(ret.elements) < Len(axTree) + Len(domForm)
    /\ \E i \in DOMAIN ret.elements : ret.elements[i].description = ""
    /\ ret.elements[Len(ret.elements)].description = "DOM element"
    /\ ret.elements[Len(ret.elements)].nodeId = Len(ret.elements) - 1

\* C2: after a successful open_new_tab the new tab is the current tab: the
\* current tab index equals the returned tabIndex (= tab count - 1), list_tabs
\* marks that tab and only that tab as isCurrent, and the active page is the
\* new page.
C2_NewTabIsCurrent ==
    (Started /\ ret.op = "open_new_tab" /\ ret.success) =>
        /\ ret.tabIndex = {LastIndex}
        /\ current_tab_index = LastIndex
        /\ \A i \in DOMAIN list_tabs : list_tabs[i].isCurrent <=> (i = LastIndex)
        /\ page = At(pages, LastIndex)

\* C3: between start and close, whatever tab operations were called and
\* whichever of them failed, the tab list has at least one entry and
\* 0 <= current_tab_index < len(pages).
C3_CurrentInRange ==
    Started => /\ Len(pages) >= 1
               /\ 0 <= current_tab_index
               /\ current_tab_index < Len(pages)

\* C3's case: close_tab removed a tab while the last tab was the current one
C3_Witness ==
    /\ Started
    /\ ret.op = "close_tab"
    /\ Len(pages) = Len(pre.pages) - 1
    /\ pre.current_tab_index = Len(pre.pages) - 1

\* C4: close_tab, with or without an index, on a session with exactly one tab
\* returns success:false, closes no page, and leaves the tab list, the current
\* tab index and the active page unchanged.
C4_LastTabRefused ==
    (ret.op = "close_tab" /\ Len(pre.pages) = 1) =>
        /\ ret.hasSuccess /\ ~ret.success
        /\ ret.driverCalls = 0
        /\ closedPages = pre.closedPages
        /\ pages = pre.pages
        /\ current_tab_index = pre.current_tab_index
        /\ page = pre.page

\* C4's case: close_tab(0) and close_tab() were refused on a one-tab session
C4_Witness ==
    /\ Started
    /\ ret.op = "close_tab"
    /\ ret.arg \in {{0}, {}}
    /\ Len(pre.pages) = 1
    /\ ~ret.success

\* C5: switch_to_tab(i) with i < 0 or i >= tab count returns success:false and
\* leaves the current tab index, the active page and the tab list unchanged.
\* With i in range, i becomes the current index and pages[i] the active page,
\* and the call returns success:true (when bring_to_front or the title read
\* throws, the handler's except clause returns success:false instead, with the
\* switch already made).
C5_SwitchToTab ==
    (ret.op = "switch_to_tab") =>
        IF ArgIndex < 0 \/ ArgIndex >= Len(pre.pages)
        THEN /\ ret.hasSuccess /\ ~ret.success
             /\ current_tab_index = pre.current_tab_index
             /\ page = pre.page
             /\ pages = pre.pages
        ELSE /\ current_tab_index = ArgIndex
             /\ page = At(pages, ArgIndex)
             /\ pages = pre.pages
             /\ ret.hasSuccess
             /\ ret.success <=> (ret.threw = "none")

\* C5's cases: an index past the end was refused, and a switch to another
\* tab succeeded
C5_Witness ==
    /\ ret.op = "switch_to_tab"
    /\ Len(pre.pages) >= 2
    /\ \/ ArgIndex = Len(pre.pages) /\ ~ret.success
       \/ ArgIndex # pre.current_tab_index /\ ret.success

\* C6: with at least two tabs and a valid index i other than the current
\* index, close_tab(i) keeps the same logical tab current: the page at the
\* current index after the call is the page that was at the current index
\* before it; tab i is removed, every tab formerly at index j > i is now at
\* index j-1 and the tabs before i keep their index (when the page's close()
\* itself throws, nothing is removed and no tab moves).
C6_CloseKeepsCurrent ==
    (/\ ret.op = "close_tab"
     /\ ret.arg # {}
     /\ Len(pre.pages) >= 2
     /\ 0 <= ArgIndex /\ ArgIndex < Len(pre.pages)
     /\ ArgIndex # pre.current_tab_index) =>
        /\ At(pages, current_tab_index) = At(pre.pages, pre.current_tab_index)
        /\ IF ret.threw = "close"
           THEN pages = pre.pages
           ELSE /\ Len(pages) = Len(pre.pages) - 1
                /\ \A j \in ArgIndex + 1 .. Len(pre.pages) - 1 :
                      At(pages, j - 1) = At(pre.pages, j)
                /\ \A j \in 0 .. ArgIndex - 1 : At(pages, j) = At(pre.pages, j)

\* C6's case: three tabs, current = 2, close_tab(1): the current index is 1
C6_Witness ==
    /\ ret.op = "close_tab"
    /\ ret.arg = {1}
    /\ ret.success
    /\ Len(pre.pages) = 3
    /\ pre.current_tab_index = 2
    /\ current_tab_index = 1
    /\ At(pages, 1) = At(pre.pages, 2)

\* C7: next_tab called exactly len(pages) times in a row, with no other call
\* in between, returns to the originally current tab: the active page and the
\* current index equal those before the first call; likewise previous_tab.
C7_FullCycle ==
    (/\ Started
     /\ streak.op \in {"next_tab", "previous_tab"}
     /\ streak.len = Len(pages)) =>
        /\ page = streak.page
        /\ current_tab_index = streak.index

\* C8: after close_other_tabs on a started session the tab list has exactly one entry, the current
\* index is 0, the entry is the tab that was current (the active page) before
\* the call, it has not been closed, and every other page has been closed.
C8_OnlyCurrentSurvives ==
    (Started /\ ret.op = "close_other_tabs" /\ ret.success) =>
        /\ pages = <<pre.page>>
        /\ current_tab_index = 0
        /\ page = pre.page
        /\ page \notin closedPages
        /\ \A i \in 1 .. Len(pre.pages) :
              pre.pages[i] # page => pre.pages[i] \in closedPages

\* C9: a click with verification on a cached checkbox, radio or switch that
\* is already checked/on (its state probe finding the control and answering)
\* returns success with skipped set and issues no driver-level click.
C9_CheckedToggleSkipped ==
    (/\ ret.op = "click"
     /\ ret.verify
     /\ ret.threw = "none"
     /\ Lookup(ArgIndex) # <<>>
     /\ Lookup(ArgIndex)[1].role \in toggle_roles
     /\ Lookup(ArgIndex)[1].name # ""
     /\ ret.on
     /\ ret.probed) =>
        ret.success /\ ret.skipped /\ ret.driverClicks = 0

\* C10: a call of any entry point from a thread other than the one that
\* started the driver raises, and does so before any driver call.
C10_ForeignThreadRaises ==
    (/\ ret.op \notin {"init", "start"}
     /\ pre.playwright_thread_id # NoThread
     /\ ret.thread # pre.playwright_thread_id) =>
        ret.raised /\ ret.driverCalls = 0

\* C11: every call the server makes into a browser controller runs on the one
\* executor thread, the thread that started the driver, and no two such calls
\* run at the same time.
C11_OneWorkerThread ==
    \A t \in Threads :
        running[t] # Idle =>
            /\ t = Worker
            /\ playwright_thread_id \in {NoThread, t}
            /\ \A u \in Threads : running[u] # Idle => u = t

\* whether the tree fetch throws out of the retry helper: an attempt's
\* exception is met by another exception, or the last attempt throws
Exhausted(outs) ==
    \E k \in 1 .. max_retries :
        /\ \A j \in 1 .. k - 1 : outs[j] \in {"empty", "throw"}
        /\ outs[k] = "abort" \/ (k = max_retries /\ outs[k] = "throw")

\* C12: get_interactive_snapshot never raises to its caller; when the tree
\* fetch still throws on the last retry, or a later step (the viewport test)
\* throws, it returns an 'error' and an empty 'elements' list.
C12_SnapshotNeverRaises ==
    ret.op = "get_snapshot" =>
        /\ ~ret.raised
        /\ (Exhausted(ret.input.outs) \/ ret.input.fail = "viewport") =>
               (ret.error /\ ret.elements = <<>>)
        /\ ret.error => ret.elements = <<>>

\* the fetch threw on all three attempts, on a started page with elements
C12_Witness ==
    /\ ret.op = "get_snapshot"
    /\ Started
    /\ ret.input.outs = <<"throw", "throw", "throw">>
    /\ ret.error
    /\ Len(axTree) + Len(domForm) > 0

\* C14: with viewport_only set, every element of the returned snapshot,
\* whichever pass found it, has a rect that lies inside the viewport.
C14_OnlyViewportElements ==
    (ret.op = "get_snapshot" /\ ret.input.viewport_only) =>
        \A i \in DOMAIN ret.elements :
            /\ ret.elements[i].rect # <<>>
            /\ InViewport(ret.elements[i].rect[1])

\* the operations addressed by nodeId, and whether the latest cached snapshot
\* has an element with a nodeId
NodeOps == {"click", "input_text", "select_date", "select_dropdown_option",
            "get_element_state"}
InLatest(node_id) ==
    /\ snapshot_cache # <<>>
    /\ \E k \in DOMAIN snapshot_cache[1].elements :
          snapshot_cache[1].elements[k].nodeId = node_id

\* C13: click, input_text, select_date, select_dropdown_option and
\* get_element_state, called with a nodeId while no snapshot is cached or the
\* latest cached snapshot has no element of that nodeId, return success false
\* with an error and issue no click, fill, keyboard or script call; none of
\* them replaces the cached snapshot.
C13_AbsentNodeRefused ==
    ret.op \in NodeOps =>
        /\ ~InLatest(ArgIndex) =>
               /\ ret.hasSuccess /\ ~ret.success
               /\ ret.error
               /\ ~ret.reported
               /\ ret.driverActions = 0
               /\ ret.driverClicks = 0
        /\ ret.driverActions > 0 => InLatest(ArgIndex)

\* an input_text for a nodeId the cached, non-empty snapshot does not have
C13_Witness ==
    /\ ret.op = "input_text"
    /\ Started
    /\ snapshot_cache # <<>>
    /\ snapshot_cache[1].elements # <<>>
    /\ ~InLatest(ArgIndex)
    /\ ret.threw = "none"
    /\ ret.error

\* C15: select_date returns success false whenever a strategy reported
\* success and the re-read of the value at the target position found it empty
\* (or found no date input there); it returns success true only if a strategy
\* reported success and the re-read did not find an empty value (a re-read
\* that throws leaves the strategy's success).
C15_DateRereadDecides ==
    ret.op = "select_date" =>
        /\ (ret.reported /\ ret.reread = "empty") => ~ret.success
        /\ ret.success => (ret.reported /\ ret.reread \in {"value", "throw"})
        /\ (ret.reported /\ ret.reread \in {"value", "throw"}) => ret.success

\* the first strategy set the date of a cached element and the re-read found
\* the value empty
C15_Witness ==
    /\ ret.op = "select_date"
    /\ ret.date # <<>>
    /\ ret.input.strat.s1 = "set"
    /\ ret.reported
    /\ ret.reread = "empty"
    /\ ~ret.success

\* C16: input_text, unless a wait around the fill raises, returns success
\* true exactly when one of its fill strategies reported success, whatever
\* the verification after the fill found (a value, an empty value or no
\* input, or an exception); without a fill there is no verification.
C16_FillDecides ==
    (ret.op = "input_text" /\ ret.threw = "none") =>
        /\ ret.hasSuccess
        /\ ret.success <=> ret.reported
        /\ ret.reread # "none" => ret.reported

\* a fill reported success, the verification found the value empty, and the
\* call returned success
C16_Witness ==
    /\ ret.op = "input_text"
    /\ ret.threw = "none"
    /\ ret.reported
    /\ ret.reread = "empty"
    /\ ret.success
    /\ control.value = ""

\* the calendar date the formats give a date string: year-month-day with a
\* dash or with a slash after a group of four digits, else day/month/year
\* when the first group is above 12, else month/day/year
Reading(s) ==
    LET p == s.parts
    IN  IF s.sep = "-" \/ Len(p[1]) = 4
        THEN [year |-> IntOf(p[1]), month |-> IntOf(p[2]), day |-> IntOf(p[3])]
        ELSE IF IntOf(p[1]) > 12
        THEN [year |-> IntOf(p[3]), month |-> IntOf(p[2]), day |-> IntOf(p[1])]
        ELSE [year |-> IntOf(p[3]), month |-> IntOf(p[1]), day |-> IntOf(p[2])]

\* a date as YYYY-MM-DD
Iso(date) ==
    [sep |-> "-",
     parts |-> <<Digits(date.year, 4), Digits(date.month, 2), Digits(date.day, 2)>>]

\* whether a string was accepted by the last select_date is seen in its
\* result: only a parsed date is reported
Accepted == ret.op = "select_date" /\ ret.date # <<>>

\* C17: the date select_date reports for an accepted string is the calendar
\* date the formats give it, written YYYY-MM-DD; so every other string that
\* is accepted and denotes the same calendar date is reported as the same
\* normalized date for the same element.
C17_OneCalendarDate ==
    Accepted =>
        /\ ret.input.date_string.sep \in {"-", "/"}
        /\ Len(ret.input.date_string.parts) = 3
        /\ ret.date = <<Iso(Reading(ret.input.date_string))>>
        /\ \A s \in DateStrings :
              (/\ ParseDate(s) # <<>>
               /\ Reading(s) = Reading(ret.input.date_string))
                  => <<Strftime(ParseDate(s)[1])>> = ret.date

\* 01/15/2024 was accepted and reported as 2024-01-15
C17_Witness ==
    /\ Accepted
    /\ ret.input.date_string = Jan15
    /\ ret.date = <<[sep |-> "-",
                     parts |-> <<<<2, 0, 2, 4>>, <<0, 1>>, <<1, 5>>>>]>>

\* whether a string is a date in one of the four formats
Matches(s) ==
    LET p == s.parts
    IN  /\ Len(p) = 3
        /\ \/ s.sep \in {"-", "/"} /\ Strptime(p[1], p[2], p[3]) # <<>>
           \/ s.sep = "/" /\ Strptime(p[3], p[2], p[1]) # <<>>
           \/ s.sep = "/" /\ Strptime(p[3], p[1], p[2]) # <<>>

\* C18: select_date for a cached nodeId with a date string that is a date in
\* none of the accepted formats returns success false with an error, reports
\* no date and issues no script, mouse or keyboard call: no strategy is tried.
C18_UnparseableRefused ==
    (/\ ret.op = "select_date"
     /\ ret.threw # "wait"
     /\ InLatest(ArgIndex)
     /\ ~Matches(ret.input.date_string)) =>
        /\ ret.hasSuccess /\ ~ret.success
        /\ ret.error
        /\ ret.threw = "parse"
        /\ ret.date = <<>>
        /\ ~ret.reported
        /\ ret.driverActions = 0

\* a date with dots was refused for a cached element of a started page
C18_Witness ==
    /\ ret.op = "select_date"
    /\ Started
    /\ InLatest(ArgIndex)
    /\ ret.input.date_string.sep = "."
    /\ Len(ret.input.date_string.parts) = 3
    /\ ret.threw = "parse"
    /\ ret.error

\* C19: a get_element_state call changes neither the cached snapshot, the tab
\* list, the current tab, the active page nor the page's content and control;
\* and when it follows a get_element_state call on the same nodeId, the
\* driver answering both, its checked and value fields are those of the call
\* before.
C19_StateReadIsPure ==
    [][ret'.op = "get_element_state" =>
          /\ UNCHANGED <<snapshot_cache, pages, current_tab_index, page,
                         axTree, domForm, control>>
          /\ (/\ ret.op = "get_element_state"
              /\ ret.arg = ret'.arg
              /\ ret.probed /\ ret'.probed) =>
                 (ret'.checked = ret.checked /\ ret'.value = ret.value)]_vars

\* a state read of a checked checkbox that holds a typed value
C19_Witness ==
    /\ ret.op = "get_element_state"
    /\ ret.probed
    /\ ret.checked = "True"
    /\ ret.value = Text

\* C20: every result returned to the caller has a boolean 'success' or an
\* 'error'.
C20_UniformEnvelope ==
    (ret.op \notin {"init", "start", "close"} /\ ~ret.raised) =>
        (ret.hasSuccess \/ ret.error)

\* C21: an exception reaches the caller of an operation only as the
\* thread-affinity violation: only when the driver was started and the call
\* came from another thread than the one that started it.
C21_OnlyAffinityRaises ==
    ret.raised =>
        (pre.playwright_thread_id # NoThread
         /\ ret.thread # pre.playwright_thread_id)

\* the distinct domains of the last five navigation events
LastFive ==
    {Netloc(navigation_history[k].url) :
        k \in (Len(navigation_history) - 4) .. Len(navigation_history)
              \cap DOMAIN navigation_history}

\* C22: the recommendation of a successful get_navigation_context is a
\* function of the distinct domains of the last 5 navigation events and the
\* tab count: it recommends new tabs exactly when there are >= 3 such
\* domains, or one tab and > 1 such domains; otherwise it calls the current
\* organization appropriate.
C22_RecommendationRule ==
    (ret.op = "get_navigation_context" /\ ret.success) =>
        /\ ret.recentDomains = LastFive
        /\ ret.recommendation \in
              {"Consider using new tabs", "Opening a new tab might help"}
            <=> \/ Cardinality(LastFive) >= 3
                \/ Len(pages) = 1 /\ Cardinality(LastFive) > 1
        /\ ret.recommendation \in
              {"Consider using new tabs", "Opening a new tab might help",
               "Current tab organization seems appropriate"}

\* six navigations over three domains, the first of them to a domain the
\* last five do not have, asked with two tabs open: no new tab is recommended
C22_Witness ==
    /\ ret.op = "get_navigation_context"
    /\ ret.success
    /\ Len(navigation_history) = 6
    /\ Len(pages) = 2
    /\ Cardinality(LastFive) = 2
    /\ Netloc(navigation_history[1].url) \notin LastFive
    /\ ret.recommendation = "Current tab organization seems appropriate"

\* C23: between start and close the active page, the handle actions are
\* dispatched to, is the page the tab list holds at the current tab index.
C23_ActiveIsCurrentTab ==
    Started => page = At(pages, current_tab_index)

\* the rank of a click strategy in the fixed order
Rank(strategy) ==
    IF strategy = "role" THEN 1 ELSE IF strategy = "box" THEN 2 ELSE 3

\* whether a click strategy applies to an element: the locators need a name,
\* the midpoint needs a bounding box
Applies(strategy, element) ==
    IF strategy = "box" THEN element.rect # <<>> ELSE element.name # ""

\* a click that went on to its strategies and returned from them
Dispatched ==
    /\ ret.op = "click"
    /\ InLatest(ArgIndex)
    /\ ret.threw = "none"
    /\ ~ret.skipped

\* C24: a click that goes on to its strategies attempts them in the order
\* role+name, bounding-box midpoint, visible text, each at most once and only
\* where it applies; a strategy is attempted only after every strategy
\* attempted before it failed, so at most one reports a click; the call
\* returns success true iff one did, and success false only after every
\* applicable strategy was attempted.
C24_StrategiesInOrder ==
    Dispatched =>
        LET element == Find(snapshot_cache[1].elements, ArgIndex, 1)[1]
        IN  /\ \A i, j \in DOMAIN ret.tried :
                  i < j => Rank(ret.tried[i]) < Rank(ret.tried[j])
            /\ \A i \in DOMAIN ret.tried :
                  /\ ret.tried[i] \in {"role", "box", "text"}
                  /\ Applies(ret.tried[i], element)
                  /\ i < Len(ret.tried) => ret.tried[i] \notin ret.landed
            /\ ret.landed \subseteq {ret.tried[i] : i \in DOMAIN ret.tried}
            /\ Cardinality(ret.landed) <= 1
            /\ ret.success <=> ret.landed # {}
            /\ ~ret.success =>
                  \A st \in {"role", "box", "text"} :
                      Applies(st, element) =>
                          st \in {ret.tried[i] : i \in DOMAIN ret.tried}
            /\ ret.driverClicks <= Len(ret.tried)

\* the locator found nothing, the click at the midpoint threw, and the click
\* by text landed
C24_Witness ==
    /\ Dispatched
    /\ ret.tried = <<"role", "box", "text">>
    /\ ret.landed = {"text"}
    /\ ret.success
    /\ ret.driverClicks = 2

\* C30: a click with verification on a checkbox, radio or switch that is not
\* skipped as already checked carries pre_state, and carries post_state
\* exactly when a strategy clicked; a click without verification carries
\* neither.
C30_StatesAttached ==
    Dispatched =>
        LET element == Find(snapshot_cache[1].elements, ArgIndex, 1)[1]
        IN  /\ (ret.verify /\ element.role \in toggle_roles) =>
                  /\ ret.hasPreState
                  /\ ret.hasPostState <=> ret.landed # {}
            /\ ~ret.verify => (~ret.hasPreState /\ ~ret.hasPostState)
            /\ ret.hasPostState => ret.hasPreState

\* a verified click on an unchecked checkbox whose every strategy failed
C30_Witness ==
    /\ Dispatched
    /\ ret.verify
    /\ Find(snapshot_cache[1].elements, ArgIndex, 1)[1].role = "checkbox"
    /\ ~ret.on
    /\ ret.probed
    /\ Len(ret.tried) = 3
    /\ ret.landed = {}
    /\ ret.hasPreState
    /\ ~ret.hasPostState
    /\ ~ret.success

\* C25: one get_interactive_snapshot call queries the accessibility tree at
\* most 3 times, on attempts numbered in order; it stops at the first tree it
\* gets, queries again after an empty result or an exception on the first
\* and second attempt (unless the wait before the next attempt raises out of
\* the handler), and asks for no wait after the third.
C25_AtMostThreeQueries ==
    ret.op = "get_snapshot" =>
        /\ Len(ret.fetch) <= 3
        /\ \A i \in DOMAIN ret.fetch :
              /\ ret.fetch[i].attempt = i - 1
              /\ ret.fetch[i].got = "tree" => i = Len(ret.fetch)
              /\ (/\ ret.fetch[i].got # "tree"
                  /\ i < 3
                  /\ ret.input.outs[i] # "abort") => i < Len(ret.fetch)
              /\ i = 3 => (ret.fetch[i].emptyWait = <<>>
                           /\ ret.fetch[i].errorWait = <<>>)
              /\ (i < 3 /\ ret.fetch[i].got = "empty") =>
                    ret.fetch[i].emptyWait # <<>>
              /\ (i < 3 /\ ret.fetch[i].got = "error") =>
                    ret.fetch[i].errorWait # <<>>

\* three queries: nothing, an exception, nothing; no wait after the third
C25_Witness ==
    /\ ret.op = "get_snapshot"
    /\ Started
    /\ Len(ret.fetch) = 3
    /\ ret.fetch[1].got = "empty" /\ ret.fetch[1].emptyWait # <<>>
    /\ ret.fetch[2].got = "error" /\ ret.fetch[2].errorWait # <<>>
    /\ ret.fetch[3].got = "empty" /\ ret.fetch[3].emptyWait = <<>>
    /\ ~ret.error

\* C26: there is one numbering of the attempts (from 0 or from 1) under
\* which every wait of the call after an empty result is attempt * 1000 ms
\* and every wait after an exception is 2^attempt * 1000 ms.
C26_OneAttemptNumbering ==
    ret.op = "get_snapshot" =>
        \E first \in {0, 1} :
            \A i \in DOMAIN ret.fetch :
                LET attempt == first + i - 1
                IN  /\ ret.fetch[i].emptyWait \in {<<>>, <<attempt * 1000>>}
                    /\ ret.fetch[i].errorWait \in {<<>>, <<(2 ^ attempt) * 1000>>}

\* a snapshot whose tree fetch gave nothing on every attempt, no attempt or
\* wait throwing
AllEmpty ==
    /\ ret.op = "get_snapshot"
    /\ Len(ret.fetch) = 3
    /\ \A i \in DOMAIN ret.fetch :
          ret.fetch[i].got = "empty" /\ ret.fetch[i].errorWait = <<>>
    /\ ret.input.fail # "viewport"

\* C27: when every tree attempt returns nothing and none throws,
\* get_interactive_snapshot reports no error; its elements are those of the
\* DOM pass alone, one per scanned element, numbered from 0; and the cached
\* snapshot is the one returned.
C27_EmptyTreeIsNoError ==
    AllEmpty =>
        /\ ~ret.error /\ ~ret.raised
        /\ \A i \in DOMAIN ret.elements :
              /\ ret.elements[i].description = "DOM element"
              /\ ret.elements[i].nodeId = i - 1
        /\ Len(ret.elements) =
              IF ret.input.fail = "dom" THEN 0 ELSE Len(domForm)
        /\ snapshot_cache = <<[elements |-> ret.elements]>>

\* a page with a tree and two scanned elements, of which the snapshot has the
\* two scanned ones only
C27_Witness ==
    /\ AllEmpty
    /\ Len(axTree) > 0
    /\ Len(domForm) = 2
    /\ Len(ret.elements) = 2
    /\ ret.elements[1].nodeId = 0
    /\ snapshot_cache = <<[elements |-> ret.elements]>>

\* C28: every element of a returned snapshot has a role of one of the three
\* role sets and the kind that role has in extract_interactive, one of
\* clickable, typeable and selectable (combobox: typeable).
C28_KindByRole ==
    ret.op = "get_snapshot" =>
        \A i \in DOMAIN ret.elements :
            /\ Interactive(ret.elements[i].role)
            /\ ret.elements[i].type \in {"clickable", "typeable", "selectable"}
            /\ ret.elements[i].type = ElementType(ret.elements[i].role)

\* Math.round of a coordinate given in tenths of a pixel, and the rounded
\* position of a box
Round(c) == (c + 5) \div 10
Position(rect) == <<Round(rect.x), Round(rect.y)>>

\* C29: no snapshot has an element of the DOM pass next to an element of the
\* tree walk with the same role, the same name and the same rounded position.
C29_NoSecondEntry ==
    ret.op = "get_snapshot" =>
        \A i, j \in DOMAIN ret.elements :
            (/\ ret.elements[i].description = ""
             /\ ret.elements[j].description = "DOM element"
             /\ ret.elements[i].rect # <<>>
             /\ ret.elements[i].role = ret.elements[j].role
             /\ ret.elements[i].name = ret.elements[j].name)
                => Position(ret.elements[i].rect[1])
                       # Position(ret.elements[j].rect[1])

\* C31: a get_element_state call that finds the control returns success true
\* with every field whose own probe answered: 'aria_checked', 'value' and
\* 'disabled' are present whenever get_attribute, input_value and is_disabled
\* answered, and 'checked' of a checkbox or radio is the state read whenever
\* is_checked answered (None when it did not), whatever the other probes did.
C31_ProbesIndependent ==
    (/\ ret.op = "get_element_state"
     /\ Lookup(ArgIndex) # <<>>
     /\ Lookup(ArgIndex)[1].name # ""
     /\ ret.input.count = "some") =>
        /\ ret.success /\ ~ret.error
        /\ ret.input.get_attribute = "ok" => ret.hasAriaChecked
        /\ ret.input.input_value = "ok" => ret.value # "absent"
        /\ ret.input.is_disabled = "ok" => ret.hasDisabled
        /\ Lookup(ArgIndex)[1].role \in checked_roles =>
               /\ ret.input.is_checked = "ok" => ret.checked \in {"True", "False"}
               /\ ret.input.is_checked = "throw" => ret.checked = "None"

\* a state read of a checkbox whose is_checked and get_attribute throw while
\* input_value and is_disabled answer
C31_Witness ==
    /\ ret.op = "get_element_state"
    /\ ret.success
    /\ ret.input # <<>>
    /\ ret.input.count = "some"
    /\ ret.input.is_checked = "throw"
    /\ ret.input.get_attribute = "throw"
    /\ ret.checked = "None"
    /\ ~ret.hasAriaChecked
    /\ ret.value # "absent"
    /\ ret.hasDisabled

\* C32: navigate, switch_to_tab, open_new_tab and close_tab leave the cached
\* snapshot as it is, and a click on a nodeId of the cached snapshot is never
\* refused, whichever page the snapshot was taken on: when its opening wait
\* does not throw it returns without an error, having reached the driver on
\* the active page (the control is skipped as already checked, or clicked).
C32_StaleSnapshotServes ==
    /\ [][ret'.op \in {"navigate", "switch_to_tab", "open_new_tab", "close_tab"}
              => snapshot_cache' = snapshot_cache]_vars
    /\ []((/\ ret.op = "click"
           /\ InLatest(ArgIndex)
           /\ ret.threw = "none") =>
              /\ ~ret.error
              /\ ret.driverCalls = 1
              /\ ret.skipped \/ ret.driverClicks > 0)

\* a click that landed on the active page, with a nodeId of a snapshot taken
\* on another page that is still open
C32_Witness ==
    /\ ret.op = "click"
    /\ InLatest(ArgIndex)
    /\ ret.success
    /\ ret.driverClicks > 0
    /\ ret.cachedOn # NoPage
    /\ ret.cachedOn # pre.page
    /\ ret.cachedOn \notin closedPages
    /\ pre.page # NoPage

\* C33: whatever the readiness wait meets (a call of it raising or timing out
\* included), a get_interactive_snapshot call on an open page goes on to query
\* the accessibility tree and returns a result: no exception reaches the
\* caller, and an error result comes only from a tree query that raised or
\* from the viewport test.
C33_ReadinessNeverBlocks ==
    (ret.op = "get_snapshot" /\ pre.page # NoPage) =>
        /\ ~ret.raised
        /\ ret.gate # <<>>
        /\ ret.fetch # <<>>
        /\ ret.fetch[1].attempt = 0
        /\ ret.error =>
               \/ ret.input.fail = "viewport"
               \/ ret.fetch[Len(ret.fetch)].got = "error"
        /\ ~ret.error => snapshot_cache = <<[elements |-> ret.elements]>>

\* a snapshot with elements taken after the first call of the readiness wait
\* raised
C33_Witness ==
    /\ ret.op = "get_snapshot"
    /\ pre.page # NoPage
    /\ ret.input.ready = "load"
    /\ ret.gate = <<"wait_for_load_state">>
    /\ ~ret.error
    /\ ret.elements # <<>>
    /\ ret.fetch[1].got = "tree"

\* C34: a get_interactive_snapshot call that returns an error leaves the
\* cached snapshot as it was, and a call that returns a snapshot leaves
\* exactly that snapshot cached, whatever was cached before.
C34_CacheFollowsSuccess ==
    [][ret'.op = "get_snapshot" =>
          IF ret'.error
          THEN snapshot_cache' = snapshot_cache
          ELSE snapshot_cache' = <<[elements |-> ret'.elements]>>]_vars

\* a failed snapshot after one that cached elements
C34_Witness ==
    /\ ret.op = "get_snapshot"
    /\ ret.error
    /\ ret.gate # <<>>
    /\ snapshot_cache # <<>>
    /\ snapshot_cache[1].elements # <<>>

\* C35: after a successful close_tab every remaining tab is listed with the
\* purpose it was listed with before the call.
C35_PurposeFollowsTab ==
    [][(ret'.op = "close_tab" /\ ret'.success) =>
          \A j \in DOMAIN list_tabs' : \A k \in DOMAIN list_tabs :
              list_tabs[k].page = list_tabs'[j].page =>
                  list_tabs'[j].purpose = list_tabs[k].purpose]_vars

\* C36: an open_new_tab call that returns success false leaves the tab list,
\* the recorded purposes, the current index and the active page as they were.
C36_FailedOpenChangesNothing ==
    [][(ret'.op = "open_new_tab" /\ ~ret'.success) =>
          UNCHANGED <<pages, tab_purposes, current_tab_index, page>>]_vars

C38_StopResets ==
    [][(reply' # reply /\ reply'.path = "stop"
        /\ reply'.status \notin {"busy", "not_running"}) =>
           /\ reply'.status = "stopped"
           /\ agent' = "None"
           /\ ~Started']_vars

\* C39: no more than one browser session is open on the profile at a time.
C39_OneSession == sessions <= 1

\* C40: in the conversation every assistant message with tool calls is
\* followed directly by the tool messages answering its calls, one per call
\* and in call order, and run() makes at most max_iterations model calls.
C40_ToolResultsFollow ==
    /\ iteration <= max_iterations
    /\ \A i \in DOMAIN conversation_history :
          LET m == conversation_history[i]
          IN  m.role = "assistant" =>
                  \A k \in DOMAIN m.tool_calls :
                      /\ i + k <= Len(conversation_history)
                      /\ conversation_history[i + k].role = "tool"
                      /\ conversation_history[i + k].tool_call_id
                             = <<m.tool_calls[k]>>

====================================================================
